---- MODULE Spec2Model ----
(***************************************************************************)
(* PSR Pro (src/main.py): the per-step annotation engine, its undo stacks, *)
(* the step list it is keyed by, and the capture queue that appends steps. *)
(*                                                                         *)
(* Conventions of the translation                                          *)
(*  - A Python value that may be None is an option: None == <<>>,          *)
(*    Some(v) == <<v>>.                                                    *)
(*  - A Python dict keyed by step index is a function whose DOMAIN is the  *)
(*    set of keys present; d.get(k, default) is Get(d, k, default).        *)
(*  - log_data and step_cards are sequences; the step with the 0-based     *)
(*    index i of the code is element i+1.                                  *)
(*  - Rect and crop coordinates are Python ints.  A stroke point           *)
(*    coordinate can become a Python float (true division in the stroke    *)
(*    resize), so it is a pair <<n, d>>: d = 0 is the int n, d > 0 is the  *)
(*    float n/d, kept as an exact fraction in lowest terms.                *)
(*  - Only the default view (one StepCard per step) is modelled.           *)
(***************************************************************************)
EXTENDS Integers, Sequences, FiniteSets, TLC

\* ------------------------------------------------------------ options
None == <<>>
Some(v) == <<v>>
Val(o) == o[1]

\* ------------------------------------------------------------ dicts
EmptyDict == [k \in {} |-> None]
Has(d, k) == k \in DOMAIN d
Get(d, k, default) == IF k \in DOMAIN d THEN d[k] ELSE default
DictSet(d, k, v) == [x \in (DOMAIN d) \cup {k} |-> IF x = k THEN v ELSE d[x]]
DictPop(d, k) == [x \in (DOMAIN d) \ {k} |-> d[x]]

\* ------------------------------------------------------------ sequences
Last(s) == s[Len(s)]
Front(s) == SubSeq(s, 1, Len(s) - 1)
RemoveAt(s, i) == SubSeq(s, 1, i - 1) \o SubSeq(s, i + 1, Len(s))
InsertAt(s, i, v) == SubSeq(s, 1, i - 1) \o <<v>> \o SubSeq(s, i, Len(s))
SetAt(s, i, v) == [s EXCEPT ![i] = v]
Min2(a, b) == IF a <= b THEN a ELSE b
Max2(a, b) == IF a >= b THEN a ELSE b
Abs(a) == IF a < 0 THEN -a ELSE a

\* ------------------------------------------------------------ Python numbers
\* int(x / y) for y > 0: Python's int() truncates toward zero.
TruncDiv(x, y) == IF x >= 0 THEN x \div y ELSE -((-x) \div y)

RECURSIVE Gcd(_, _)
Gcd(a, b) == IF b = 0 THEN a ELSE Gcd(b, a % b)

I(k) == <<k, 0>>
IsFloat(a) == a[2] > 0
Den(a) == IF a[2] = 0 THEN 1 ELSE a[2]
\* the float n/d, d # 0
F(n, d) ==
    LET s == IF d < 0 THEN -1 ELSE 1
        g == Gcd(Abs(n), Abs(d))
    IN  <<(s * n) \div g, (s * d) \div g>>
NumAdd(a, b) ==
    IF ~IsFloat(a) /\ ~IsFloat(b) THEN I(a[1] + b[1])
    ELSE F(a[1] * Den(b) + b[1] * Den(a), Den(a) * Den(b))
NumSub(a, b) ==
    IF ~IsFloat(a) /\ ~IsFloat(b) THEN I(a[1] - b[1])
    ELSE F(a[1] * Den(b) - b[1] * Den(a), Den(a) * Den(b))
NumMul(a, b) ==
    IF ~IsFloat(a) /\ ~IsFloat(b) THEN I(a[1] * b[1])
    ELSE F(a[1] * b[1], Den(a) * Den(b))
\* a / b: Python's true division always gives a float
NumDiv(a, b) == F(a[1] * Den(b), Den(a) * b[1])
NumLe(a, b) == a[1] * Den(b) <= b[1] * Den(a)
NumLt(a, b) == a[1] * Den(b) < b[1] * Den(a)
NumInt(a) == TruncDiv(a[1], Den(a))
NumMin(a, b) == IF NumLe(a, b) THEN a ELSE b
NumMax(a, b) == IF NumLe(b, a) THEN a ELSE b

RECURSIVE SeqMin(_)
SeqMin(s) == IF Len(s) = 1 THEN s[1] ELSE NumMin(s[1], SeqMin(Tail(s)))
RECURSIVE SeqMax(_)
SeqMax(s) == IF Len(s) = 1 THEN s[1] ELSE NumMax(s[1], SeqMax(Tail(s)))

\* ------------------------------------------------------------ constants of the program
CARD_IMG_MAX_W == 860
HANDLE_HIT == 9
PAD == 6
MinCropSize == 10
MinRectSize == 4
RectWidth == 3

\* faulty variant: the top-centre handle moves the left edge as well
HANDLE_FX_corner ==
    << << 1, 1, 0, 0 >>, << 1, 1, 0, 0 >>, << 0, 1, 1, 0 >>,
       << 1, 0, 0, 0 >>,                    << 0, 0, 1, 0 >>,
       << 1, 0, 0, 1 >>, << 0, 0, 0, 1 >>, << 0, 0, 1, 1 >> >>

\* _HANDLE_FX: for each handle, which of (x1, y1, x2, y2) follow the pointer
HANDLE_FX ==
    << <<1,1,0,0>>, <<0,1,0,0>>, <<0,1,1,0>>,
       <<1,0,0,0>>,              <<0,0,1,0>>,
       <<1,0,0,1>>, <<0,0,0,1>>, <<0,0,1,1>> >>

TOOLS == {"none", "highlight", "redact", "crop", "draw"}
DefaultColor == "#e74c3c"
OtherColor == "#3d8ef0"

\* ------------------------------------------------------------ state
VARIABLES
    recording,        \* global recording
    paused,           \* global paused
    current_session,  \* None, or Some(folder) once a session folder is set
    step_counter,     \* global step_counter
    log_data,         \* sequence of step entries [step, screenshot]
    event_queue,      \* queue.Queue() filled by the listener threads
    step_objects,     \* dict step index -> list of annotation objects
    step_crops,       \* dict step index -> crop rectangle (or a stored None)
    undo_stacks,      \* dict step index -> list of snapshots
    annotation_tool,  \* global annotation_tool
    draw_color,       \* global draw_color
    draw_width,       \* global draw_width
    step_cards,       \* list of StepCard objects
    active_card_ref,  \* None, or Some(index of the active card)
    selected,         \* global _selected: set of selected step indices
    files,            \* the session folder: screenshot name -> image size
    steps_json,       \* the session folder's steps.json: None or Some(steps)
    button_down,      \* environment: None, or Some(index of the card whose
                      \* canvas received the last ButtonPress-1 and not yet
                      \* its ButtonRelease-1)
    last_op,          \* history: the handler that ran last, and its result
    ops_left          \* bound of the exploration: handler runs still allowed

vars == <<recording, paused, current_session, step_counter, log_data, event_queue,
          step_objects, step_crops, undo_stacks, annotation_tool, draw_color,
          draw_width, step_cards, active_card_ref, selected, files, steps_json,
          button_down, last_op, ops_left>>

\* what the rest of the code reads: step_objects.get(i, []) and step_crops.get(i)
ObjectsOf(objs, i) == Get(objs, i, <<>>)
CropOf(crops, i) == Get(crops, i, None)
StackOf(stacks, i) == Get(stacks, i, <<>>)
NSteps == Len(log_data)
StepIdx == 0 .. (Len(log_data) - 1)

\* ------------------------------------------------------------ geometry
IsRect(obj) == obj.type \in {"highlight", "redact"}

\* faulty variant: the corners of a rect are returned as they are stored
obj_bbox_img_stored(obj) ==
    IF IsRect(obj)
    THEN << I(obj.x1), I(obj.y1), I(obj.x2), I(obj.y2) >>
    ELSE LET xs == [k \in 1 .. Len(obj.points) |-> obj.points[k][1]]
             ys == [k \in 1 .. Len(obj.points) |-> obj.points[k][2]]
         IN  << SeqMin(xs), SeqMin(ys), SeqMax(xs), SeqMax(ys) >>


\* _obj_bbox_img: <<x1, y1, x2, y2>>, each a Python number
obj_bbox_img(obj) ==
    IF IsRect(obj)
    THEN << I(Min2(obj.x1, obj.x2)), I(Min2(obj.y1, obj.y2)),
            I(Max2(obj.x1, obj.x2)), I(Max2(obj.y1, obj.y2)) >>
    ELSE LET xs == [k \in 1 .. Len(obj.points) |-> obj.points[k][1]]
             ys == [k \in 1 .. Len(obj.points) |-> obj.points[k][2]]
         IN  << SeqMin(xs), SeqMin(ys), SeqMax(xs), SeqMax(ys) >>

\* _get_crop(step_index, img_size) with img_size given
get_crop(crops, i, img_size) ==
    LET crop == CropOf(crops, i)
    IN  IF crop # None
        THEN << Val(crop).x1, Val(crop).y1, Val(crop).x2, Val(crop).y2 >>
        ELSE << 0, 0, img_size[1], img_size[2] >>

\* the clamp of reload_image and _flatten_to_pil: sorted, inside the image, >= 1x1
ClampCrop(c, size) ==
    LET sx1 == Min2(c[1], c[3])  sx2 == Max2(c[1], c[3])
        sy1 == Min2(c[2], c[4])  sy2 == Max2(c[2], c[4])
        cx1 == Max2(0, Min2(sx1, size[1]))
        cy1 == Max2(0, Min2(sy1, size[2]))
        cx2 == Max2(cx1 + 1, Min2(sx2, size[1]))
        cy2 == Max2(cy1 + 1, Min2(sy2, size[2]))
    IN  << cx1, cy1, cx2, cy2 >>

\* dw, dh of reload_image: ratio = min(CARD_IMG_MAX_W / w, 1.0), in exact
\* arithmetic (the float products int(w * ratio), int(h * ratio) are the same
\* for the sizes of the model)
DispSize(w, h) ==
    IF w <= CARD_IMG_MAX_W THEN << w, h >>
    ELSE << CARD_IMG_MAX_W, TruncDiv(h * CARD_IMG_MAX_W, w) >>

\* StepCard._canvas_to_img
canvas_to_img(card, cx, cy) ==
    LET dw == card.disp_size[1]   dh == card.disp_size[2]
        cw == card.crop_region[3] - card.crop_region[1]
        ch == card.crop_region[4] - card.crop_region[2]
    IN  << Max2(0, TruncDiv(card.crop_region[1] * dw + cx * cw, dw)),
           Max2(0, TruncDiv(card.crop_region[2] * dh + cy * ch, dh)) >>

\* faulty variant: the offset of the crop is not taken off
img_to_canvas_no_offset(card, ix, iy) ==
    LET dw == card.disp_size[1]   dh == card.disp_size[2]
        cw == card.crop_region[3] - card.crop_region[1]
        ch == card.crop_region[4] - card.crop_region[2]
    IN  << NumInt(NumDiv(NumMul(ix, I(dw)), I(cw))),
           NumInt(NumDiv(NumMul(iy, I(dh)), I(ch))) >>


\* StepCard._img_to_canvas, on Python numbers
img_to_canvas(card, ix, iy) ==
    LET dw == card.disp_size[1]   dh == card.disp_size[2]
        cw == card.crop_region[3] - card.crop_region[1]
        ch == card.crop_region[4] - card.crop_region[2]
    IN  << NumInt(NumDiv(NumMul(NumSub(ix, I(card.crop_region[1])), I(dw)), I(cw))),
           NumInt(NumDiv(NumMul(NumSub(iy, I(card.crop_region[2])), I(dh)), I(ch))) >>

\* StepCard._img_bbox_to_canvas
img_bbox_to_canvas(card, bbox) ==
    img_to_canvas(card, bbox[1], bbox[2]) \o img_to_canvas(card, bbox[3], bbox[4])

\* the width of the line segment that the draw branch of _on_drag puts on
\* the canvas: max(1, int(draw_width * dw / ow)), ow the width of the image
preview_width(card, width) ==
    Max2(1, TruncDiv(width * card.disp_size[1], card.orig_size[1]))

\* the width with which _render_one draws a committed stroke:
\* max(1, int(obj["width"] * scale)), scale = dw / crop_w
render_width(card, width) ==
    Max2(1, TruncDiv(width * card.disp_size[1],
                     card.crop_region[3] - card.crop_region[1]))

\* ------------------------------------------------------------ hit testing
\* the 8 handle positions of _handle_at, doubled so that the midpoints
\* (bx1+bx2)/2 and (by1+by2)/2 stay integers
HandlePos2(b) ==
    << <<2*b[1], 2*b[2]>>,    <<b[1]+b[3], 2*b[2]>>,    <<2*b[3], 2*b[2]>>,
       <<2*b[1], b[2]+b[4]>>,                           <<2*b[3], b[2]+b[4]>>,
       <<2*b[1], 2*b[4]>>,    <<b[1]+b[3], 2*b[4]>>,    <<2*b[3], 2*b[4]>> >>

\* faulty variant: the tolerance is HANDLE_HIT image pixels, so that it
\* shrinks on the canvas when the image is shown smaller
handle_at_image_tol(card, objs, cx, cy) ==
    IF card.selected_obj = None THEN None
    ELSE LET objects == ObjectsOf(objs, card.index) IN
         IF Val(card.selected_obj) >= Len(objects) THEN None
         ELSE LET b == img_bbox_to_canvas(card,
                           obj_bbox_img(objects[Val(card.selected_obj) + 1]))
                  pos == HandlePos2(b)
                  dw == card.disp_size[1]
                  cw == card.crop_region[3] - card.crop_region[1]
                  hits == { h \in 1 .. 8 :
                              /\ Abs(2*cx - pos[h][1]) * cw <= 2 * HANDLE_HIT * dw
                              /\ Abs(2*cy - pos[h][2]) * cw <= 2 * HANDLE_HIT * dw }
              IN  IF hits = {} THEN None
                  ELSE Some((CHOOSE h \in hits : \A g \in hits : h <= g) - 1)


\* StepCard._handle_at: None or Some(handle index 0..7)
handle_at(card, objs, cx, cy) ==
    IF card.selected_obj = None THEN None
    ELSE LET objects == ObjectsOf(objs, card.index) IN
         IF Val(card.selected_obj) >= Len(objects) THEN None
         ELSE LET b == img_bbox_to_canvas(card,
                           obj_bbox_img(objects[Val(card.selected_obj) + 1]))
                  pos == HandlePos2(b)
                  hits == { h \in 1 .. 8 :
                              /\ Abs(2*cx - pos[h][1]) <= 2 * HANDLE_HIT
                              /\ Abs(2*cy - pos[h][2]) <= 2 * HANDLE_HIT }
              IN  IF hits = {} THEN None
                  ELSE Some((CHOOSE h \in hits : \A g \in hits : h <= g) - 1)

\* the test of the loop of _obj_at: the image point p is inside the bounding
\* box of obj, expanded by PAD on every side
in_padded_bbox(obj, p) ==
    LET b == obj_bbox_img(obj) IN
    /\ NumLe(NumSub(b[1], I(PAD)), I(p[1]))
    /\ NumLe(I(p[1]), NumAdd(b[3], I(PAD)))
    /\ NumLe(NumSub(b[2], I(PAD)), I(p[2]))
    /\ NumLe(I(p[2]), NumAdd(b[4], I(PAD)))

\* faulty variant: the loop runs front to back, the lowest index wins
scan_front(objects, p, i) ==
    LET hits == { k \in 0 .. i : in_padded_bbox(objects[k + 1], p) } IN
    IF hits = {} THEN None
    ELSE Some(CHOOSE k \in hits : \A g \in hits : k <= g)


\* the loop of _obj_at, for i in range(len(objects)-1, -1, -1), from the
\* 0-based index i down: the first index that passes the test, or None
RECURSIVE scan_objects(_, _, _)
scan_objects(objects, p, i) ==
    IF i < 0 THEN None
    ELSE IF in_padded_bbox(objects[i + 1], p) THEN Some(i)
    ELSE scan_objects(objects, p, i - 1)

\* StepCard._obj_at: None or Some(index of the topmost object hit)
obj_at(card, objs, cx, cy) ==
    LET p == canvas_to_img(card, cx, cy)
        objects == ObjectsOf(objs, card.index)
    IN  scan_objects(objects, p, Len(objects) - 1)

\* ------------------------------------------------------------ undo
\* json.dumps / json.loads of {"objects": ..., "crop": ...}: the lists and
\* dicts keep their shape, Python's None becomes null and back.
JNull == [null |-> TRUE]
\* faulty variant: the snapshot forgets the crop
json_dumps_no_crop(state) ==
    [objects |-> state.objects, crop |-> JNull]
json_dumps(state) ==
    [objects |-> state.objects,
     crop    |-> IF state.crop = None THEN JNull ELSE Val(state.crop)]
json_loads(text) ==
    [objects |-> text.objects,
     crop    |-> IF text.crop = JNull THEN None ELSE Some(text.crop)]

\* The live {objects, crop} of a step, as push_undo reads it.
LiveState(objs, crops, i) ==
    [objects |-> ObjectsOf(objs, i), crop |-> CropOf(crops, i)]

\* faulty variant: the snapshot goes onto the stack of the first step
push_undo_first(stacks, objs, crops, i) ==
    LET snap == [json    |-> json_dumps(LiveState(objs, crops, i)),
                 at_push |-> LiveState(objs, crops, i)]
    IN  DictSet(stacks, 0, Append(StackOf(stacks, 0), snap))


\* push_undo: the new undo_stacks.  A snapshot is the JSON text; at_push is
\* a history field holding the live state at the moment of the push, which
\* no operation of the program reads.
push_undo(stacks, objs, crops, i) ==
    LET snap == [json    |-> json_dumps(LiveState(objs, crops, i)),
                 at_push |-> LiveState(objs, crops, i)]
    IN  DictSet(stacks, i, Append(StackOf(stacks, i), snap))

\* faulty variant: on an empty stack the step's objects are reset
pop_undo_resets(stacks, objs, crops, i) ==
    LET stack == StackOf(stacks, i) IN
    IF stack = <<>>
    THEN [ok |-> FALSE, objects |-> DictSet(objs, i, <<>>), crops |-> crops,
          stacks |-> stacks]
    ELSE LET state == json_loads(Last(stack).json) IN
         [ok      |-> TRUE,
          objects |-> DictSet(objs, i, state.objects),
          crops   |-> IF state.crop = None THEN DictPop(crops, i)
                      ELSE DictSet(crops, i, state.crop),
          stacks  |-> DictSet(stacks, i, Front(stack))]

\* pop_undo: [ok, objects, crops, stacks]
pop_undo(stacks, objs, crops, i) ==
    LET stack == StackOf(stacks, i) IN
    IF stack = <<>>
    THEN [ok |-> FALSE, objects |-> objs, crops |-> crops, stacks |-> stacks]
    ELSE LET state == json_loads(Last(stack).json) IN
         [ok      |-> TRUE,
          objects |-> DictSet(objs, i, state.objects),
          crops   |-> IF state.crop = None THEN DictPop(crops, i)
                      ELSE DictSet(crops, i, state.crop),
          stacks  |-> DictSet(stacks, i, Front(stack))]

\* clear_undo_stack
clear_undo_stack(stacks, i) == DictPop(stacks, i)

\* ------------------------------------------------------------ persistence
\* save_steps: the new content of steps.json (unchanged without a session)
save_steps(session, log, objs, crops, old) ==
    IF session = None THEN old
    ELSE Some([k \in 1 .. Len(log) |->
                 [step       |-> log[k].step,
                  screenshot |-> log[k].screenshot,
                  objects    |-> ObjectsOf(objs, k - 1),
                  crop       |-> IF CropOf(crops, k - 1) = None THEN JNull
                                 ELSE Val(CropOf(crops, k - 1))]])

\* ------------------------------------------------------------ cards
\* StepCard.reload_image: the card with _orig_size, _crop_region, _disp_size
\* recomputed (left alone for a text-only step, without a session, or when
\* the screenshot file is missing)
reload_image(card, session, log, crops, fs) ==
    IF card.is_text_only \/ session = None THEN card
    ELSE LET shot == Val(log[card.index + 1].screenshot) IN
         IF ~Has(fs, shot) THEN card
         ELSE LET size == fs[shot]
                  cr   == ClampCrop(get_crop(crops, card.index, size), size)
              IN  [card EXCEPT !.orig_size   = size,
                               !.crop_region = cr,
                               !.disp_size   = DispSize(cr[3] - cr[1], cr[4] - cr[2])]

\* StepCard.__init__
NewCard(i, session, log, crops, fs) ==
    reload_image(
        [index        |-> i,
         is_text_only |-> (log[i + 1].screenshot = None),
         disp_size    |-> << CARD_IMG_MAX_W, 100 >>,
         orig_size    |-> << 1920, 1080 >>,
         crop_region  |-> << 0, 0, 1920, 1080 >>,
         create_start |-> None,
         create_rect  |-> None,
         draw_pts     |-> << >>,
         last_draw    |-> None,
         selected_obj |-> None,
         drag_info    |-> None],
        session, log, crops, fs)

\* _build_all_cards (default view): one fresh StepCard per step
build_all_cards(session, log, crops, fs) ==
    [k \in 1 .. Len(log) |-> NewCard(k - 1, session, log, crops, fs)]

\* ------------------------------------------------------------ flatten
\* what _flatten_to_pil draws for one object on the cropped image whose
\* top-left corner is (cx1, cy1)
flat_op(obj, cx1, cy1) ==
    IF obj.type = "highlight"
    THEN [op |-> "highlight", color |-> obj.color,
          box |-> << Min2(obj.x1 - cx1, obj.x2 - cx1), Min2(obj.y1 - cy1, obj.y2 - cy1),
                     Max2(obj.x1 - cx1, obj.x2 - cx1), Max2(obj.y1 - cy1, obj.y2 - cy1) >>]
    ELSE IF obj.type = "redact"
    THEN [op |-> "redact",
          box |-> << Min2(obj.x1 - cx1, obj.x2 - cx1), Min2(obj.y1 - cy1, obj.y2 - cy1),
                     Max2(obj.x1 - cx1, obj.x2 - cx1), Max2(obj.y1 - cy1, obj.y2 - cy1) >>]
    ELSE [op |-> "draw", color |-> obj.color, width |-> obj.width,
          line |-> Len(obj.points) >= 2,
          pts |-> [k \in 1 .. Len(obj.points) |->
                     << NumInt(obj.points[k][1]) - cx1,
                        NumInt(obj.points[k][2]) - cy1 >>]]

\* faulty variant: the objects are drawn newest first
flatten_newest_first(log, session, fs, objs, crops, i) ==
    IF i >= Len(log) THEN [kind |-> "raise"]
    ELSE IF log[i + 1].screenshot = None THEN [kind |-> "none"]
    ELSE IF session = None \/ ~Has(fs, Val(log[i + 1].screenshot)) THEN [kind |-> "raise"]
    ELSE LET size == fs[Val(log[i + 1].screenshot)]
             cr == ClampCrop(get_crop(crops, i, size), size)
             objects == ObjectsOf(objs, i)
         IN  [kind |-> "image", region |-> cr,
              ops |-> [k \in 1 .. Len(objects) |->
                         flat_op(objects[Len(objects) + 1 - k], cr[1], cr[2])]]

\* _flatten_to_pil(step_index): [kind |-> "none"] for a text-only step,
\* [kind |-> "image", region, ops] for the cropped screenshot with the draw
\* operations in the order they are made, [kind |-> "raise"] when
\* log_data[step_index] or Image.open raises; step_index >= 0, as every
\* caller passes the index of a card or of an enumerate
flatten_to_pil(log, session, fs, objs, crops, i) ==
    IF i >= Len(log) THEN [kind |-> "raise"]
    ELSE IF log[i + 1].screenshot = None THEN [kind |-> "none"]
    ELSE IF session = None \/ ~Has(fs, Val(log[i + 1].screenshot)) THEN [kind |-> "raise"]
    ELSE LET size == fs[Val(log[i + 1].screenshot)]
             cr == ClampCrop(get_crop(crops, i, size), size)
             objects == ObjectsOf(objs, i)
         IN  [kind |-> "image", region |-> cr,
              ops |-> [k \in 1 .. Len(objects) |-> flat_op(objects[k], cr[1], cr[2])]]


\* ------------------------------------------------------------ bounds
MaxObjs == 2      \* objects per step
MaxUndo == 2      \* snapshots per undo stack
MaxPts == 2       \* canvas points accumulated by one stroke gesture
MaxSteps == 3     \* steps in log_data
MaxQueue == 2     \* events waiting in event_queue
MaxCounter == 4   \* largest step_counter a capture may start from
MaxOps == 6       \* handler runs explored from the start of the program
MaxOpsEdit == 8   \* handler runs explored in the annotation editor
MaxOpsCreate == 6 \* handler runs explored with the create gestures
MaxOpsSteps == 2  \* handler runs explored from an opened recording
MaxOpsCapture == 5 \* handler runs explored with the recorder

Op(name, step, ret) == [name |-> name, step |-> step, ret |-> ret]

\* ------------------------------------------------------------ pointer handlers
\* faulty variant: no create tool pushes at the press
press_pushes_never(tool) == FALSE


\* the test at the end of _on_press: the create tools that push at the press
press_pushes(tool) == tool \in {"highlight", "redact"}

\* faulty variant: a press and release without a drag commits nothing
stroke_commits_two(draw_pts) == Len(draw_pts) >= 2


\* the test at the start of the draw branch of _on_release
stroke_commits(draw_pts) == draw_pts # << >>

\* StepCard._on_press: [card, stacks]
on_press(card, objs, crops, stacks, tool, x, y) ==
    LET i == card.index
        objects == ObjectsOf(objs, i)
    IN
    IF tool = "none" THEN
        LET handle == handle_at(card, objs, x, y)
            hit    == obj_at(card, objs, x, y)
        IN
        IF handle # None THEN
            LET obj == objects[Val(card.selected_obj) + 1] IN
            [card   |-> [card EXCEPT !.drag_info = Some(
                           [type         |-> "handle",
                            handle       |-> Val(handle),
                            start_canvas |-> << x, y >>,
                            obj_snapshot |-> obj,
                            bbox_start   |-> obj_bbox_img(obj)])],
             stacks |-> push_undo(stacks, objs, crops, i)]
        ELSE IF hit # None THEN
            [card   |-> [card EXCEPT !.selected_obj = hit,
                                     !.drag_info = Some(
                           [type         |-> "move",
                            start_canvas |-> << x, y >>,
                            start_img    |-> canvas_to_img(card, x, y),
                            obj_snapshot |-> objects[Val(hit) + 1]])],
             stacks |-> push_undo(stacks, objs, crops, i)]
        ELSE
            [card   |-> [card EXCEPT !.selected_obj = None, !.drag_info = None],
             stacks |-> stacks]
    ELSE IF tool = "draw" THEN
        [card   |-> [card EXCEPT !.selected_obj = None,
                                 !.draw_pts = << << x, y >> >>,
                                 !.last_draw = Some(<< x, y >>)],
         stacks |-> push_undo(stacks, objs, crops, i)]
    ELSE
        [card   |-> [card EXCEPT !.selected_obj = None,
                                 !.create_start = Some(<< x, y >>),
                                 !.create_rect = Some("rect")],
         stacks |-> IF press_pushes(tool)
                    THEN push_undo(stacks, objs, crops, i)
                    ELSE stacks]

\* faulty variant: the points are shifted with the dragged corner instead of
\* being rescaled
resize_points_shifts(snap, bbox_start, dx, dy, fx) ==
    [k \in 1 .. Len(snap.points) |->
       << NumAdd(snap.points[k][1], I(dx * (fx[1] + fx[3]))),
          NumAdd(snap.points[k][2], I(dy * (fx[2] + fx[4]))) >>]


\* the stroke branch of the handle drag of _on_drag: the new points
resize_points(snap, bbox_start, dx, dy, fx) ==
    LET bx1 == bbox_start[1]  by1 == bbox_start[2]
        bx2 == bbox_start[3]  by2 == bbox_start[4]
        nx1 == NumAdd(bx1, I(dx * fx[1]))
        ny1 == NumAdd(by1, I(dy * fx[2]))
        nx2a == NumAdd(bx2, I(dx * fx[3]))
        ny2a == NumAdd(by2, I(dy * fx[4]))
        nx2 == IF NumLt(nx2a, NumAdd(nx1, I(5))) THEN NumAdd(nx1, I(5)) ELSE nx2a
        ny2 == IF NumLt(ny2a, NumAdd(ny1, I(5))) THEN NumAdd(ny1, I(5)) ELSE ny2a
        ow0 == NumSub(bx2, bx1)
        oh0 == NumSub(by2, by1)
        ow == IF ow0[1] # 0 THEN ow0 ELSE I(1)
        oh == IF oh0[1] # 0 THEN oh0 ELSE I(1)
    IN  [k \in 1 .. Len(snap.points) |->
           << NumAdd(nx1, NumDiv(NumMul(NumSub(snap.points[k][1], bx1),
                                        NumSub(nx2, nx1)), ow)),
              NumAdd(ny1, NumDiv(NumMul(NumSub(snap.points[k][2], by1),
                                        NumSub(ny2, ny1)), oh)) >>]

\* faulty variant: a move shifts the object as it is now, so that successive
\* drag events accumulate
drag_object_accumulates(card, obj, x, y) ==
    LET info == Val(card.drag_info)
        snap == info.obj_snapshot
        c    == canvas_to_img(card, x, y)
    IN
    IF info.type = "move" THEN
        LET dx == c[1] - info.start_img[1]
            dy == c[2] - info.start_img[2]
        IN  IF IsRect(obj)
            THEN [obj EXCEPT !.x1 = obj.x1 + dx, !.y1 = obj.y1 + dy,
                             !.x2 = obj.x2 + dx, !.y2 = obj.y2 + dy]
            ELSE [obj EXCEPT !.points =
                    [k \in 1 .. Len(obj.points) |->
                       << NumAdd(obj.points[k][1], I(dx)),
                          NumAdd(obj.points[k][2], I(dy)) >>]]
    ELSE
        LET s  == canvas_to_img(card, info.start_canvas[1], info.start_canvas[2])
            dx == c[1] - s[1]
            dy == c[2] - s[2]
            fx == HANDLE_FX[info.handle + 1]
        IN  IF IsRect(obj)
            THEN [obj EXCEPT !.x1 = snap.x1 + dx * fx[1], !.y1 = snap.y1 + dy * fx[2],
                             !.x2 = snap.x2 + dx * fx[3], !.y2 = snap.y2 + dy * fx[4]]
            ELSE [obj EXCEPT !.points =
                    resize_points(snap, info.bbox_start, dx, dy, fx)]


\* the transform part of _on_drag (move or handle): the new object
drag_object(card, obj, x, y) ==
    LET info == Val(card.drag_info)
        snap == info.obj_snapshot
        c    == canvas_to_img(card, x, y)
    IN
    IF info.type = "move" THEN
        LET dx == c[1] - info.start_img[1]
            dy == c[2] - info.start_img[2]
        IN  IF IsRect(obj)
            THEN [obj EXCEPT !.x1 = snap.x1 + dx, !.y1 = snap.y1 + dy,
                             !.x2 = snap.x2 + dx, !.y2 = snap.y2 + dy]
            ELSE [obj EXCEPT !.points =
                    [k \in 1 .. Len(snap.points) |->
                       << NumAdd(snap.points[k][1], I(dx)),
                          NumAdd(snap.points[k][2], I(dy)) >>]]
    ELSE
        LET s  == canvas_to_img(card, info.start_canvas[1], info.start_canvas[2])
            dx == c[1] - s[1]
            dy == c[2] - s[2]
            fx == HANDLE_FX[info.handle + 1]
        IN  IF IsRect(obj)
            THEN [obj EXCEPT !.x1 = snap.x1 + dx * fx[1], !.y1 = snap.y1 + dy * fx[2],
                             !.x2 = snap.x2 + dx * fx[3], !.y2 = snap.y2 + dy * fx[4]]
            ELSE [obj EXCEPT !.points =
                    resize_points(snap, info.bbox_start, dx, dy, fx)]

\* StepCard._on_drag: [card, objs]
on_drag(card, objs, tool, x, y) ==
    LET i == card.index
        objects == ObjectsOf(objs, i)
    IN
    IF tool = "draw" /\ card.last_draw # None THEN
        [card |-> [card EXCEPT !.draw_pts = Append(@, << x, y >>),
                               !.last_draw = Some(<< x, y >>)],
         objs |-> objs]
    ELSE IF card.create_rect # None /\ card.create_start # None THEN
        [card |-> card, objs |-> objs]
    ELSE IF card.drag_info = None THEN
        [card |-> card, objs |-> objs]
    ELSE IF card.selected_obj = None \/ Val(card.selected_obj) >= Len(objects) THEN
        [card |-> card, objs |-> objs]
    ELSE
        LET k == Val(card.selected_obj) + 1 IN
        [card |-> card,
         objs |-> DictSet(objs, i, SetAt(objects, k, drag_object(card, objects[k], x, y)))]

\* faulty variant: a crop as small as the minimum is committed
crop_commits_ge(w, h) == w >= MinCropSize /\ h >= MinCropSize

\* faulty variant: any crop of positive size is committed
crop_commits_any(w, h) == w > 0 /\ h > 0

\* the size test of the crop branch of _on_release
crop_commits(w, h) == w > MinCropSize /\ h > MinCropSize

\* faulty variant: any rectangle larger than one pixel is committed
rect_commits_loose(w, h) == w > 1 /\ h > 1

\* the size test of the highlight/redact branch of _on_release
rect_commits(w, h) == w > MinRectSize /\ h > MinRectSize

\* StepCard._on_release: [card, objs, crops, stacks, save, reload]; save and
\* reload say whether save_steps() and self.reload_image() were called
on_release(card, objs, crops, stacks, tool, color, width, x, y) ==
    LET i == card.index
        objects == ObjectsOf(objs, i)
        same == [card |-> card, objs |-> objs, crops |-> crops, stacks |-> stacks,
                 save |-> FALSE, reload |-> FALSE]
    IN
    IF tool = "draw" THEN
        IF ~stroke_commits(card.draw_pts) THEN same
        ELSE LET img_pts == [k \in 1 .. Len(card.draw_pts) |->
                               LET q == canvas_to_img(card, card.draw_pts[k][1],
                                                      card.draw_pts[k][2])
                               IN  << I(q[1]), I(q[2]) >>]
                 stroke == [type |-> "draw", color |-> color, width |-> width,
                            points |-> img_pts]
             IN  [same EXCEPT !.card = [card EXCEPT !.draw_pts = << >>,
                                                    !.last_draw = None],
                              !.objs = DictSet(objs, i, Append(objects, stroke)),
                              !.save = TRUE, !.reload = TRUE]
    ELSE IF tool = "crop" /\ card.create_start # None THEN
        LET a == canvas_to_img(card, Val(card.create_start)[1], Val(card.create_start)[2])
            b == canvas_to_img(card, x, y)
            ix1 == Min2(a[1], b[1])   ix2 == Max2(a[1], b[1])
            iy1 == Min2(a[2], b[2])   iy2 == Max2(a[2], b[2])
            cleared == [card EXCEPT !.create_rect = None, !.create_start = None]
        IN  IF crop_commits(ix2 - ix1, iy2 - iy1)
            THEN [same EXCEPT !.card = cleared,
                              !.stacks = push_undo(stacks, objs, crops, i),
                              !.crops = DictSet(crops, i,
                                  Some([x1 |-> ix1, y1 |-> iy1, x2 |-> ix2, y2 |-> iy2])),
                              !.save = TRUE, !.reload = TRUE]
            ELSE [same EXCEPT !.card = cleared, !.reload = TRUE]
    ELSE IF tool \in {"highlight", "redact"} /\ card.create_start # None THEN
        LET a == canvas_to_img(card, Val(card.create_start)[1], Val(card.create_start)[2])
            b == canvas_to_img(card, x, y)
            cleared == [card EXCEPT !.create_rect = None, !.create_start = None]
            rect == [type |-> tool, color |-> color, width |-> RectWidth,
                     x1 |-> Min2(a[1], b[1]), y1 |-> Min2(a[2], b[2]),
                     x2 |-> Max2(a[1], b[1]), y2 |-> Max2(a[2], b[2])]
        IN  [same EXCEPT !.card = cleared,
                         !.objs = IF rect_commits(Abs(b[1] - a[1]), Abs(b[2] - a[2]))
                                  THEN DictSet(objs, i, Append(objects, rect))
                                  ELSE objs,
                         !.save = TRUE, !.reload = TRUE]
    ELSE IF card.drag_info # None THEN
        [same EXCEPT !.card = [card EXCEPT !.drag_info = None], !.save = TRUE]
    ELSE same

\* ------------------------------------------------------------ card commands
\* StepCard.apply_color_to_selection: [ok, objs, stacks]
apply_color_to_selection(card, objs, crops, stacks, hex_color) ==
    LET i == card.index
        objects == ObjectsOf(objs, i)
    IN  IF card.selected_obj = None \/ Val(card.selected_obj) >= Len(objects)
        THEN [ok |-> FALSE, objs |-> objs, stacks |-> stacks]
        ELSE LET k == Val(card.selected_obj) + 1 IN
             [ok     |-> TRUE,
              objs   |-> DictSet(objs, i,
                           SetAt(objects, k, [objects[k] EXCEPT !.color = hex_color])),
              stacks |-> push_undo(stacks, objs, crops, i)]

\* faulty variant: the selection survives the deletion
delete_selected_keeps_selection(card, objs, crops, stacks) ==
    LET i == card.index
        objects == ObjectsOf(objs, i)
    IN  IF card.selected_obj = None \/ Val(card.selected_obj) >= Len(objects)
        THEN [ok |-> FALSE, card |-> card, objs |-> objs, stacks |-> stacks]
        ELSE [ok     |-> TRUE,
              card   |-> [card EXCEPT !.drag_info = None],
              objs   |-> DictSet(objs, i, RemoveAt(objects, Val(card.selected_obj) + 1)),
              stacks |-> push_undo(stacks, objs, crops, i)]


\* faulty variant: the last object of the step is removed
delete_selected_last(card, objs, crops, stacks) ==
    LET i == card.index
        objects == ObjectsOf(objs, i)
    IN  IF card.selected_obj = None \/ Val(card.selected_obj) >= Len(objects)
        THEN [ok |-> FALSE, card |-> card, objs |-> objs, stacks |-> stacks]
        ELSE [ok     |-> TRUE,
              card   |-> [card EXCEPT !.selected_obj = None, !.drag_info = None],
              objs   |-> DictSet(objs, i, Front(objects)),
              stacks |-> push_undo(stacks, objs, crops, i)]


\* StepCard.delete_selected: [ok, card, objs, stacks]
delete_selected(card, objs, crops, stacks) ==
    LET i == card.index
        objects == ObjectsOf(objs, i)
    IN  IF card.selected_obj = None \/ Val(card.selected_obj) >= Len(objects)
        THEN [ok |-> FALSE, card |-> card, objs |-> objs, stacks |-> stacks]
        ELSE [ok     |-> TRUE,
              card   |-> [card EXCEPT !.selected_obj = None, !.drag_info = None],
              objs   |-> DictSet(objs, i, RemoveAt(objects, Val(card.selected_obj) + 1)),
              stacks |-> push_undo(stacks, objs, crops, i)]

\* faulty variant: the drag in progress survives the undo
undo_keeps_drag(card, objs, crops, stacks) ==
    LET r == pop_undo(stacks, objs, crops, card.index) IN
    [ok |-> r.ok,
     card |-> IF r.ok THEN [card EXCEPT !.selected_obj = None] ELSE card,
     objs |-> r.objects, crops |-> r.crops, stacks |-> r.stacks]

\* StepCard._undo: [ok, card, objs, crops, stacks]; on success the caller
\* saves and reloads the image
undo(card, objs, crops, stacks) ==
    LET r == pop_undo(stacks, objs, crops, card.index) IN
    IF r.ok
    THEN [ok |-> TRUE,
          card |-> [card EXCEPT !.selected_obj = None, !.drag_info = None],
          objs |-> r.objects, crops |-> r.crops, stacks |-> r.stacks]
    ELSE [ok |-> FALSE, card |-> card,
          objs |-> r.objects, crops |-> r.crops, stacks |-> r.stacks]

\* StepCard._reset_crop: [ok, crops, stacks]
reset_crop(card, objs, crops, stacks) ==
    IF ~Has(crops, card.index)
    THEN [ok |-> FALSE, crops |-> crops, stacks |-> stacks]
    ELSE [ok     |-> TRUE,
          crops  |-> DictPop(crops, card.index),
          stacks |-> push_undo(stacks, objs, crops, card.index)]

\* ------------------------------------------------------------ step list
ScreenSize == << 1720, 1000 >>    \* size of a captured screenshot
PastedSize == << 100, 80 >>       \* size of a pasted, dropped or chosen image

Entry(step, screenshot) == [step |-> step, screenshot |-> screenshot]

\* the file name of a pasted or custom image: step_paste_<time>.png,
\* step_custom_<time>.png; the time stamp is a name no file of the folder has
FreshName(fs, prefix) ==
    << prefix, CHOOSE n \in 1 .. (Cardinality(DOMAIN fs) + 1) :
                 /\ << prefix, n >> \notin DOMAIN fs
                 /\ \A m \in 1 .. (n - 1) : << prefix, m >> \in DOMAIN fs >>

\* the loop of _shift_step_data_up on one dict, from index i down to from_index
RECURSIVE ShiftKeys(_, _, _)
ShiftKeys(d, i, from_index) ==
    IF i < from_index THEN d
    ELSE ShiftKeys(IF Has(d, i) THEN DictSet(DictPop(d, i), i + 1, d[i]) ELSE d,
                   i - 1, from_index)

\* faulty variant: the crops are not shifted
shift_objects_only(log, objs, crops, stacks, from_index) ==
    LET n == Len(log) IN
    [objs   |-> ShiftKeys(objs, n - 1, from_index),
     crops  |-> crops,
     stacks |-> ShiftKeys(stacks, n - 1, from_index)]

\* _shift_step_data_up: [objs, crops, stacks]
shift_step_data_up(log, objs, crops, stacks, from_index) ==
    LET n == Len(log) IN
    [objs   |-> ShiftKeys(objs, n - 1, from_index),
     crops  |-> ShiftKeys(crops, n - 1, from_index),
     stacks |-> ShiftKeys(stacks, n - 1, from_index)]

\* the body shared by insert_custom_step, _insert_step_image and
\* _insert_step_text: shift, log_data.insert, step_objects[insert_pos] = []
\* [log, objs, crops, stacks]
insert_step(log, objs, crops, stacks, insert_pos, screenshot) ==
    LET sh == shift_step_data_up(log, objs, crops, stacks, insert_pos) IN
    [log    |-> InsertAt(log, insert_pos + 1, Entry(insert_pos + 1, screenshot)),
     objs   |-> DictSet(sh.objs, insert_pos, << >>),
     crops  |-> sh.crops,
     stacks |-> sh.stacks]

\* several inserts in a row (a pasted file list, a file drop): kinds is the
\* sequence of "image" / "text" items, item k goes to position pos + k - 1
\* [log, objs, crops, stacks, files]
RECURSIVE insert_items(_, _, _, _, _, _, _)
insert_items(log, objs, crops, stacks, fs, pos, kinds) ==
    IF kinds = << >>
    THEN [log |-> log, objs |-> objs, crops |-> crops, stacks |-> stacks, files |-> fs]
    ELSE LET name == FreshName(fs, "paste")
             shot == IF Head(kinds) = "image" THEN Some(name) ELSE None
             fs2  == IF Head(kinds) = "image" THEN DictSet(fs, name, PastedSize) ELSE fs
             r    == insert_step(log, objs, crops, stacks, pos, shot)
         IN  insert_items(r.log, r.objs, r.crops, r.stacks, fs2, pos + 1, Tail(kinds))

\* the renumbering loop of _renumber_and_rebuild
Renumber(log) == [k \in 1 .. Len(log) |-> [log[k] EXCEPT !.step = k]]

\* faulty variant: the undo stacks survive the rebuild
renumber_keeps_undo(session, log, objs, crops, fs, old_json) ==
    LET log2 == Renumber(log) IN
    [log    |-> log2,
     json   |-> save_steps(session, log2, objs, crops, old_json),
     stacks |-> undo_stacks,
     cards  |-> build_all_cards(session, log2, crops, fs)]

\* _renumber_and_rebuild: [log, json, stacks, cards]
renumber_and_rebuild(session, log, objs, crops, fs, old_json) ==
    LET log2 == Renumber(log) IN
    [log    |-> log2,
     json   |-> save_steps(session, log2, objs, crops, old_json),
     stacks |-> EmptyDict,
     cards  |-> build_all_cards(session, log2, crops, fs)]

\* _active_insert_pos
active_insert_pos(active, log) ==
    IF active # None /\ Val(active) < Len(log) THEN Val(active) + 1 ELSE Len(log)

\* the rebuilding loop of _delete_selected: [log, objs, crops, files]
delete_steps(log, objs, crops, fs, to_delete) ==
    LET keep == { k \in 0 .. (Len(log) - 1) : k \notin to_delete }
        \* the old index of the step that gets the new index j
        Old(j) == CHOOSE k \in keep : Cardinality({ m \in keep : m < k }) = j
        n2 == Cardinality(keep)
        gone == { Val(log[k + 1].screenshot) :
                    k \in { m \in 0 .. (Len(log) - 1) :
                              m \in to_delete /\ log[m + 1].screenshot # None } }
    IN  [log   |-> [j \in 1 .. n2 |-> log[Old(j - 1) + 1]],
         objs  |-> [j \in { m \in 0 .. (n2 - 1) : Has(objs, Old(m)) } |-> objs[Old(j)]],
         crops |-> [j \in { m \in 0 .. (n2 - 1) : Has(crops, Old(m)) } |-> crops[Old(j)]],
         files |-> [f \in (DOMAIN fs) \ gone |-> fs[f]]]

\* faulty variant: the crops stay at their old indices
reorder_crops_stay(log, objs, crops, src, dst) ==
    LET n == Len(log)
        objs_list == [k \in 1 .. n |-> ObjectsOf(objs, k - 1)]
        Move(l) == InsertAt(RemoveAt(l, src + 1), dst + 1, l[src + 1])
        objs2 == Move(objs_list)
    IN  [log   |-> Move(log),
         objs  |-> [k \in 0 .. (n - 1) |-> objs2[k + 1]],
         crops |-> crops]

\* the list surgery of _reorder_step: [log, objs, crops]
reorder_step(log, objs, crops, src, dst) ==
    LET n == Len(log)
        objs_list  == [k \in 1 .. n |-> ObjectsOf(objs, k - 1)]
        crops_list == [k \in 1 .. n |-> CropOf(crops, k - 1)]
        Move(l) == InsertAt(RemoveAt(l, src + 1), dst + 1, l[src + 1])
        objs2  == Move(objs_list)
        crops2 == Move(crops_list)
    IN  [log   |-> Move(log),
         objs  |-> [k \in 0 .. (n - 1) |-> objs2[k + 1]],
         crops |-> [k \in { m \in 0 .. (n - 1) : crops2[m + 1] # None } |-> crops2[k + 1]]]

\* the swap of StepCard._move_up (j = i - 1) and _move_down (j = i + 1):
\* [log, objs, crops]
swap_steps(log, objs, crops, i, j) ==
    [log   |-> [log EXCEPT ![i + 1] = log[j + 1], ![j + 1] = log[i + 1]],
     objs  |-> DictSet(DictSet(objs, i, ObjectsOf(objs, j)), j, ObjectsOf(objs, i)),
     crops |-> DictSet(DictSet(crops, i, CropOf(crops, j)), j, CropOf(crops, i))]

\* ------------------------------------------------------------ actions: the canvas
\* every handler run uses up one unit of the exploration bound
Tick == ops_left > 0 /\ ops_left' = ops_left - 1

recvars  == << recording, paused, event_queue >>
toolvars == << annotation_tool, draw_color, draw_width >>
stepvars == << current_session, step_counter, log_data, files >>

CardOf(i) == step_cards[i + 1]
HasCanvas(i) == i \in StepIdx /\ i < Len(step_cards) /\ ~CardOf(i).is_text_only
InCanvas(card, x, y) ==
    0 <= x /\ x < card.disp_size[1] /\ 0 <= y /\ y < card.disp_size[2]
Grows(stacks2, i) == Len(StackOf(stacks2, i)) > Len(StackOf(undo_stacks, i))
\* the bounds of the model: no push beyond MaxUndo, no object beyond MaxObjs
WithinBounds(objs2, stacks2, i) ==
    /\ Grows(stacks2, i) => Len(StackOf(undo_stacks, i)) < MaxUndo
    /\ Len(ObjectsOf(objs2, i)) > Len(ObjectsOf(step_objects, i))
         => Len(ObjectsOf(step_objects, i)) < MaxObjs

\* <ButtonPress-1> on the canvas of card i: StepCard._on_press, then the
\* _on_left of _bind_card_context bound to the same event (ctrl: Control held)
OnPress(i, x, y, ctrl) ==
    /\ Tick
    /\ button_down = None
    /\ HasCanvas(i)
    /\ InCanvas(CardOf(i), x, y)
    /\ LET r == on_press(CardOf(i), step_objects, step_crops, undo_stacks,
                         annotation_tool, x, y)
       IN  /\ WithinBounds(step_objects, r.stacks, i)
           /\ step_cards' = SetAt(step_cards, i + 1, r.card)
           /\ undo_stacks' = r.stacks
    /\ active_card_ref' = Some(i)
    /\ selected' = IF ctrl
                   THEN (IF i \in selected THEN selected \ {i} ELSE selected \cup {i})
                   ELSE {i}
    /\ button_down' = Some(i)
    /\ last_op' = [name |-> "press", step |-> i, ret |-> TRUE, at |-> << x, y >>]
    /\ UNCHANGED << recvars, toolvars, stepvars, step_objects, step_crops, steps_json >>

\* <B1-Motion> on the canvas that has the button: StepCard._on_drag
OnDrag(x, y) ==
    /\ Tick
    /\ button_down # None
    /\ LET i == Val(button_down)
           r == on_drag(CardOf(i), step_objects, annotation_tool, x, y)
       IN  /\ Len(r.card.draw_pts) <= MaxPts
           /\ step_cards' = SetAt(step_cards, i + 1, r.card)
           /\ step_objects' = r.objs
           /\ last_op' = [name |-> "drag", step |-> i, ret |-> TRUE, at |-> << x, y >>]
    /\ UNCHANGED << recvars, toolvars, stepvars, step_crops, undo_stacks,
                    active_card_ref, selected, steps_json, button_down >>

\* <ButtonRelease-1> on the canvas that has the button: StepCard._on_release
OnRelease(x, y) ==
    /\ Tick
    /\ button_down # None
    /\ LET i == Val(button_down)
           r == on_release(CardOf(i), step_objects, step_crops, undo_stacks,
                           annotation_tool, draw_color, draw_width, x, y)
       IN  /\ WithinBounds(r.objs, r.stacks, i)
           /\ step_objects' = r.objs
           /\ step_crops' = r.crops
           /\ undo_stacks' = r.stacks
           /\ steps_json' = IF r.save
                            THEN save_steps(current_session, log_data, r.objs,
                                            r.crops, steps_json)
                            ELSE steps_json
           /\ step_cards' = SetAt(step_cards, i + 1,
                               IF r.reload
                               THEN reload_image(r.card, current_session, log_data,
                                                 r.crops, files)
                               ELSE r.card)
           /\ last_op' = [name |-> "release", step |-> i, ret |-> TRUE,
                          at |-> << x, y >>,
                          changed |-> LiveState(r.objs, r.crops, i)
                                        # LiveState(step_objects, step_crops, i)]
    /\ button_down' = None
    /\ UNCHANGED << recvars, toolvars, stepvars, active_card_ref, selected >>

\* set_tool
set_tool(tool) ==
    /\ Tick
    /\ tool # annotation_tool
    /\ annotation_tool' = tool
    /\ last_op' = Op("set_tool", -1, TRUE)
    /\ UNCHANGED << recvars, draw_color, draw_width, stepvars, step_objects,
                    step_crops, undo_stacks, step_cards, active_card_ref, selected,
                    steps_json, button_down >>

\* _on_tool_hotkey (v, u, m, c, b): at any moment, also while the button is held
OnToolHotkey(tool) ==
    /\ tool \in TOOLS
    /\ set_tool(tool)

\* a button of the tool strip, clicked with the mouse
ToolButton(tool) ==
    /\ button_down = None
    /\ set_tool(tool)

\* StepCard._undo on card i, with its save_steps and reload_image
UndoCard(i) ==
    LET r == undo(CardOf(i), step_objects, step_crops, undo_stacks) IN
    /\ step_objects' = r.objs
    /\ step_crops' = r.crops
    /\ undo_stacks' = r.stacks
    /\ steps_json' = IF r.ok
                     THEN save_steps(current_session, log_data, r.objs, r.crops,
                                     steps_json)
                     ELSE steps_json
    /\ step_cards' = SetAt(step_cards, i + 1,
                        IF r.ok
                        THEN reload_image(r.card, current_session, log_data,
                                          r.crops, files)
                        ELSE r.card)
    /\ last_op' = [name |-> "undo", step |-> i, ret |-> r.ok,
                   changed |-> LiveState(r.objs, r.crops, i)
                                 # LiveState(step_objects, step_crops, i)]

\* _on_undo: Ctrl+Z, at any moment, also while the button is held
OnUndoKey ==
    /\ Tick
    /\ active_card_ref # None
    /\ HasCanvas(Val(active_card_ref))
    /\ UndoCard(Val(active_card_ref))
    /\ UNCHANGED << recvars, toolvars, stepvars, active_card_ref, selected,
                    button_down >>

\* the Undo button in the header of card i
UndoButton(i) ==
    /\ Tick
    /\ button_down = None
    /\ HasCanvas(i)
    /\ UndoCard(i)
    /\ UNCHANGED << recvars, toolvars, stepvars, active_card_ref, selected,
                    button_down >>

\* the Reset Crop button in the header of card i: StepCard._reset_crop
ResetCropButton(i) ==
    /\ Tick
    /\ button_down = None
    /\ HasCanvas(i)
    /\ LET r == reset_crop(CardOf(i), step_objects, step_crops, undo_stacks) IN
       /\ WithinBounds(step_objects, r.stacks, i)
       /\ step_crops' = r.crops
       /\ undo_stacks' = r.stacks
       /\ steps_json' = IF r.ok
                        THEN save_steps(current_session, log_data, step_objects,
                                        r.crops, steps_json)
                        ELSE steps_json
       /\ step_cards' = SetAt(step_cards, i + 1,
                           IF r.ok
                           THEN reload_image(CardOf(i), current_session, log_data,
                                             r.crops, files)
                           ELSE CardOf(i))
       /\ last_op' = Op("reset_crop", i, r.ok)
    /\ UNCHANGED << recvars, toolvars, stepvars, step_objects, active_card_ref,
                    selected, button_down >>

\* a colour swatch (shown while the draw tool is active): _set_draw_color_global
SetDrawColor(hex_color) ==
    /\ Tick
    /\ button_down = None
    /\ annotation_tool = "draw"
    /\ draw_color' = hex_color
    /\ IF active_card_ref # None
       THEN LET i == Val(active_card_ref)
                r == apply_color_to_selection(CardOf(i), step_objects, step_crops,
                                              undo_stacks, hex_color)
            IN  /\ WithinBounds(step_objects, r.stacks, i)
                /\ step_objects' = r.objs
                /\ undo_stacks' = r.stacks
                /\ steps_json' = IF r.ok
                                 THEN save_steps(current_session, log_data, r.objs,
                                                 step_crops, steps_json)
                                 ELSE steps_json
                /\ last_op' = Op("recolor", i, r.ok)
       ELSE /\ UNCHANGED << step_objects, undo_stacks, steps_json >>
            /\ last_op' = Op("recolor", -1, FALSE)
    /\ UNCHANGED << recvars, annotation_tool, draw_width, stepvars, step_crops,
                    step_cards, active_card_ref, selected, button_down >>

\* _on_root_key (Delete, BackSpace) with no step selected: the fallback that
\* deletes the selected annotation object of the active card
OnDeleteKeyObject ==
    /\ Tick
    /\ selected = {}
    /\ active_card_ref # None
    /\ LET i == Val(active_card_ref)
           r == delete_selected(CardOf(i), step_objects, step_crops, undo_stacks)
       IN  /\ WithinBounds(step_objects, r.stacks, i)
           /\ step_objects' = r.objs
           /\ undo_stacks' = r.stacks
           /\ step_cards' = SetAt(step_cards, i + 1, r.card)
           /\ steps_json' = IF r.ok
                            THEN save_steps(current_session, log_data, r.objs,
                                            step_crops, steps_json)
                            ELSE steps_json
           /\ last_op' = Op("delete_object", i, r.ok)
    /\ UNCHANGED << recvars, toolvars, stepvars, step_crops, active_card_ref,
                    selected, button_down >>

\* ------------------------------------------------------------ actions: the step list
\* history: some step had a snapshot on its undo stack
HadUndo == \E i \in DOMAIN undo_stacks : undo_stacks[i] # << >>

\* what every caller of _renumber_and_rebuild does with its result; the old
\* canvases are destroyed, so a held button no longer reaches a handler
Rebuild(log2, objs2, crops2, fs2) ==
    LET r == renumber_and_rebuild(current_session, log2, objs2, crops2, fs2,
                                  steps_json)
    IN  /\ log_data' = r.log
        /\ steps_json' = r.json
        /\ undo_stacks' = r.stacks
        /\ step_cards' = r.cards
        /\ step_objects' = objs2
        /\ step_crops' = crops2
        /\ files' = fs2
        /\ active_card_ref' = None
        /\ button_down' = None

\* insert_custom_step: the dialog confirmed, with or without an image
InsertCustomStep(insert_pos, with_image) ==
    /\ Tick
    /\ button_down = None
    /\ current_session # None
    /\ insert_pos \in 0 .. Len(log_data)
    /\ Len(log_data) < MaxSteps
    /\ LET name == FreshName(files, "custom")
           r == insert_step(log_data, step_objects, step_crops, undo_stacks,
                            insert_pos, IF with_image THEN Some(name) ELSE None)
       IN  /\ Rebuild(r.log, r.objs, r.crops,
                      IF with_image THEN DictSet(files, name, PastedSize) ELSE files)
           /\ step_counter' = Len(r.log) + 1
    /\ last_op' = [name |-> "insert", step |-> insert_pos, ret |-> TRUE, count |-> 1,
                   had_undo |-> HadUndo]
    /\ UNCHANGED << recvars, toolvars, current_session, selected >>

\* _handle_paste (Ctrl+V): kinds is what the clipboard holds, one image, a
\* list of image files, or one text
HandlePaste(kinds) ==
    /\ Tick
    /\ current_session # None
    /\ kinds # << >>
    /\ Len(log_data) + Len(kinds) <= MaxSteps
    /\ LET pos == active_insert_pos(active_card_ref, log_data)
           r == insert_items(log_data, step_objects, step_crops, undo_stacks,
                             files, pos, kinds)
       IN  /\ Rebuild(r.log, r.objs, r.crops, r.files)
           /\ step_counter' = Len(r.log) + 1
           /\ last_op' = [name |-> "insert", step |-> pos, ret |-> TRUE,
                          count |-> Len(kinds), had_undo |-> HadUndo]
    /\ UNCHANGED << recvars, toolvars, current_session, selected >>

\* _handle_file_drop at the card position pos
HandleFileDrop(pos, kinds) ==
    /\ Tick
    /\ button_down = None
    /\ current_session # None
    /\ kinds # << >>
    /\ pos \in 0 .. Len(log_data)
    /\ Len(log_data) + Len(kinds) <= MaxSteps
    /\ LET r == insert_items(log_data, step_objects, step_crops, undo_stacks,
                             files, pos, kinds)
       IN  /\ Rebuild(r.log, r.objs, r.crops, r.files)
           /\ step_counter' = Len(r.log) + 1
           /\ last_op' = [name |-> "insert", step |-> pos, ret |-> TRUE,
                          count |-> Len(kinds), had_undo |-> HadUndo]
    /\ UNCHANGED << recvars, toolvars, current_session, selected >>

\* the sidebar list box: <<ListboxSelect>> sets _selected
SidebarSelect(S) ==
    /\ Tick
    /\ button_down = None
    /\ S \subseteq StepIdx
    /\ S # selected
    /\ selected' = S
    /\ last_op' = Op("select", -1, TRUE)
    /\ UNCHANGED << recvars, toolvars, stepvars, step_objects, step_crops,
                    undo_stacks, step_cards, active_card_ref, steps_json,
                    button_down >>

\* _delete_selected with the dialog answered yes
DoDeleteSelected(to_delete) ==
    LET r == delete_steps(log_data, step_objects, step_crops, files, to_delete) IN
    /\ Rebuild(r.log, r.objs, r.crops, r.files)
    /\ selected' = {}
    /\ last_op' = [name |-> "delete_steps", step |-> -1, ret |-> TRUE,
                   deleted |-> to_delete, had_undo |-> HadUndo]
    /\ UNCHANGED << recvars, toolvars, current_session, step_counter >>

\* _delete_selected from _on_root_key (Delete, BackSpace while steps are
\* selected) or from the context menu
DeleteSelectedSteps ==
    /\ Tick
    /\ selected # {}
    /\ DoDeleteSelected(selected)

\* the X button of card i: _delete_step
DeleteStepButton(i) ==
    /\ Tick
    /\ button_down = None
    /\ i \in StepIdx
    /\ DoDeleteSelected({i})

\* _reorder_step(src, dst), from _card_drag_release or _sidebar_release
ReorderStep(src, dst) ==
    /\ Tick
    /\ button_down = None
    /\ src # dst
    /\ src \in StepIdx /\ dst \in StepIdx
    /\ LET r == reorder_step(log_data, step_objects, step_crops, src, dst) IN
       Rebuild(r.log, r.objs, r.crops, files)
    /\ last_op' = [name |-> "reorder", step |-> src, ret |-> TRUE, dst |-> dst,
                   had_undo |-> HadUndo]
    /\ UNCHANGED << recvars, toolvars, current_session, step_counter, selected >>

\* the up arrow of card i: StepCard._move_up
MoveUp(i) ==
    /\ Tick
    /\ button_down = None
    /\ i \in StepIdx
    /\ i # 0
    /\ LET r == swap_steps(log_data, step_objects, step_crops, i, i - 1) IN
       Rebuild(r.log, r.objs, r.crops, files)
    /\ last_op' = [name |-> "move_up", step |-> i, ret |-> TRUE, had_undo |-> HadUndo]
    /\ UNCHANGED << recvars, toolvars, current_session, step_counter, selected >>

\* the down arrow of card i: StepCard._move_down
MoveDown(i) ==
    /\ Tick
    /\ button_down = None
    /\ i \in StepIdx
    /\ i < Len(log_data) - 1
    /\ LET r == swap_steps(log_data, step_objects, step_crops, i, i + 1) IN
       Rebuild(r.log, r.objs, r.crops, files)
    /\ last_op' = [name |-> "move_down", step |-> i, ret |-> TRUE, had_undo |-> HadUndo]
    /\ UNCHANGED << recvars, toolvars, current_session, step_counter, selected >>

\* ------------------------------------------------------------ actions: recording
annvars == << step_objects, step_crops, undo_stacks, step_cards, active_card_ref,
              selected, steps_json, button_down >>

\* start_recording (the project name dialog confirmed); create_session makes
\* a new, empty session folder
StartRecording ==
    /\ Tick
    /\ button_down = None
    /\ ~recording
    /\ selected' = {}
    /\ current_session' = Some("session")
    /\ files' = EmptyDict
    /\ steps_json' = None
    /\ log_data' = << >>
    /\ step_objects' = EmptyDict
    /\ step_crops' = EmptyDict
    /\ step_counter' = 1
    /\ recording' = TRUE
    /\ step_cards' = << >>
    /\ active_card_ref' = None
    /\ last_op' = Op("start_recording", -1, TRUE)
    /\ UNCHANGED << paused, event_queue, toolvars, undo_stacks, button_down >>

\* stop_recording
StopRecording ==
    /\ Tick
    /\ button_down = None
    /\ recording
    /\ recording' = FALSE
    /\ paused' = FALSE
    /\ steps_json' = save_steps(current_session, log_data, step_objects, step_crops,
                                steps_json)
    /\ last_op' = Op("stop_recording", -1, TRUE)
    /\ UNCHANGED << event_queue, toolvars, stepvars, step_objects, step_crops,
                    undo_stacks, step_cards, active_card_ref, selected, button_down >>

\* continue_recording
ContinueRecording ==
    /\ Tick
    /\ button_down = None
    /\ ~recording
    /\ current_session # None
    /\ recording' = TRUE
    /\ last_op' = Op("continue_recording", -1, TRUE)
    /\ UNCHANGED << paused, event_queue, toolvars, stepvars, annvars >>

\* _toggle_pause
TogglePause ==
    /\ Tick
    /\ button_down = None
    /\ recording
    /\ paused' = ~paused
    /\ last_op' = Op("toggle_pause", -1, TRUE)
    /\ UNCHANGED << recording, event_queue, toolvars, stepvars, annvars >>

\* the mouse listener thread: _on_click for a button release that the
\* capture settings let through
OnClick ==
    /\ Tick
    /\ recording /\ ~paused
    /\ Len(event_queue) < MaxQueue
    /\ event_queue' = Append(event_queue, "click")
    /\ last_op' = Op("on_click", -1, TRUE)
    /\ UNCHANGED << recording, paused, toolvars, stepvars, annvars >>

\* the keyboard listener thread: _on_press_key for a key that the capture
\* settings let through
OnPressKey ==
    /\ Tick
    /\ recording /\ ~paused
    /\ Len(event_queue) < MaxQueue
    /\ event_queue' = Append(event_queue, "key")
    /\ last_op' = Op("on_press_key", -1, TRUE)
    /\ UNCHANGED << recording, paused, toolvars, stepvars, annvars >>

\* faulty variant: the capture empties the object list of the last step
handle_event_clobbers(counter, log, objs, fs) ==
    LET filename == << "step", counter >> IN
    [log   |-> Append(log, Entry(counter, Some(filename))),
     objs  |-> DictSet(objs, Len(log) - 1, << >>),
     files |-> DictSet(fs, filename, ScreenSize)]

\* handle_event past its guards, with the screenshot taken: [log, objs, files]
handle_event(counter, log, objs, fs) ==
    LET filename == << "step", counter >> IN
    [log   |-> Append(log, Entry(counter, Some(filename))),
     objs  |-> DictSet(objs, counter - 1, << >>),
     files |-> DictSet(fs, filename, ScreenSize)]

\* process_queue on the UI timer, with an event waiting: handle_event and the
\* _append_card it schedules; shot_ok: capture_screenshot did not raise
ProcessQueue(shot_ok) ==
    /\ Tick
    /\ event_queue # << >>
    /\ event_queue' = Tail(event_queue)
    /\ IF recording /\ current_session # None /\ shot_ok
       THEN LET r == handle_event(step_counter, log_data, step_objects, files) IN
            /\ Len(log_data) < MaxSteps
            /\ step_counter <= MaxCounter
            /\ log_data' = r.log
            /\ step_objects' = r.objs
            /\ files' = r.files
            /\ steps_json' = save_steps(current_session, r.log, r.objs, step_crops,
                                        steps_json)
            /\ step_cards' = Append(step_cards,
                                NewCard(Len(r.log) - 1, current_session, r.log,
                                        step_crops, r.files))
            /\ step_counter' = step_counter + 1
            /\ last_op' = Op("capture", Len(log_data), TRUE)
       ELSE /\ UNCHANGED << log_data, step_objects, files, steps_json, step_cards,
                            step_counter >>
            /\ last_op' = Op("capture", -1, FALSE)
    /\ UNCHANGED << recording, paused, toolvars, current_session, step_crops,
                    undo_stacks, active_card_ref, selected, button_down >>

\* faulty variant: the crops of the manifest are not loaded
load_steps_no_crop(steps_raw) ==
    [log   |-> [k \in 1 .. Len(steps_raw) |->
                  Entry(steps_raw[k].step, steps_raw[k].screenshot)],
     objs  |-> [i \in 0 .. (Len(steps_raw) - 1) |->
                  IF "objects" \in DOMAIN steps_raw[i + 1]
                  THEN steps_raw[i + 1].objects ELSE << >>],
     crops |-> EmptyDict]

\* the loop of _do_load_recording over the steps of steps.json: [log, objs, crops];
\* entry.pop("objects", []) and entry.pop("crop", None) answer the default
\* for a record without the field, 'if crop:' skips null
load_steps(steps_raw) ==
    [log   |-> [k \in 1 .. Len(steps_raw) |->
                  Entry(steps_raw[k].step, steps_raw[k].screenshot)],
     objs  |-> [i \in 0 .. (Len(steps_raw) - 1) |->
                  IF "objects" \in DOMAIN steps_raw[i + 1]
                  THEN steps_raw[i + 1].objects ELSE << >>],
     crops |-> [i \in { m \in 0 .. (Len(steps_raw) - 1) :
                          /\ "crop" \in DOMAIN steps_raw[m + 1]
                          /\ steps_raw[m + 1].crop # JNull }
                  |-> Some(steps_raw[i + 1].crop)]]

\* _do_load_recording on the folder of the current session
LoadRecording ==
    /\ Tick
    /\ button_down = None
    /\ steps_json # None
    /\ LET r == load_steps(Val(steps_json)) IN
       /\ log_data' = r.log
       /\ step_objects' = r.objs
       /\ step_crops' = r.crops
       /\ step_counter' = Len(r.log) + 1
       /\ step_cards' = build_all_cards(current_session, r.log, r.crops, files)
    /\ selected' = {}
    /\ undo_stacks' = EmptyDict
    /\ active_card_ref' = None
    /\ last_op' = [name |-> "load", step |-> -1, ret |-> TRUE, had_undo |-> HadUndo]
    /\ UNCHANGED << recvars, toolvars, current_session, files, steps_json,
                    button_down >>

\* _on_root_key (Delete or BackSpace, no text field focused): _delete_selected
\* when steps are selected, where the user answers the question with yes or
\* no; else delete_selected of the active card
OnRootKey(yes) ==
    \/ /\ yes
       /\ DeleteSelectedSteps
    \/ /\ ~yes
       /\ Tick
       /\ selected # {}
       /\ last_op' = Op("delete_steps_asked", -1, FALSE)
       /\ UNCHANGED << recvars, toolvars, stepvars, annvars >>
    \/ OnDeleteKeyObject


\* ------------------------------------------------------------ actions: thumbnails and export
\* ListCard._load_thumb / GridCard._load_thumb of the card of step i, as the
\* list and the grid view run it for every step they show
LoadThumb(i) ==
    /\ Tick
    /\ button_down = None
    /\ i \in StepIdx
    /\ LET flat == IF current_session = None THEN [kind |-> "none"]
                   ELSE flatten_to_pil(log_data, current_session, files,
                                       step_objects, step_crops, i)
       IN  last_op' = [name |-> "load_thumb", step |-> i,
                       ret |-> flat.kind # "raise", flat |-> flat]
    /\ UNCHANGED << recvars, toolvars, stepvars, annvars >>

\* the flatten loop of an export: the results up to and including the first
\* call that raises
RECURSIVE flatten_all(_, _, _, _, _, _)
flatten_all(log, session, fs, objs, crops, i) ==
    IF i >= Len(log) THEN << >>
    ELSE LET flat == flatten_to_pil(log, session, fs, objs, crops, i) IN
         IF flat.kind = "raise" THEN << flat >>
         ELSE << flat >> \o flatten_all(log, session, fs, objs, crops, i + 1)

\* export_html (pdf = FALSE) and export_pdf (pdf = TRUE): export_html makes
\* its flatten calls outside any try, export_pdf makes them inside
\* 'try ... except Exception' and shows an error box
Export(pdf) ==
    /\ Tick
    /\ button_down = None
    /\ log_data # << >>
    /\ LET flats == flatten_all(log_data, current_session, files,
                                step_objects, step_crops, 0)
           raised == flats # << >> /\ Last(flats).kind = "raise"
       IN  last_op' = [name |-> IF pdf THEN "export_pdf" ELSE "export_html",
                       step |-> -1, ret |-> ~raised,
                       propagates |-> raised /\ ~pdf, flats |-> flats]
    /\ UNCHANGED << recvars, toolvars, stepvars, annvars >>

\* the user removes the screenshot of step i from the session folder
ScreenshotRemoved(i) ==
    /\ Tick
    /\ button_down = None
    /\ i \in StepIdx
    /\ log_data[i + 1].screenshot # None
    /\ Has(files, Val(log_data[i + 1].screenshot))
    /\ files' = DictPop(files, Val(log_data[i + 1].screenshot))
    /\ last_op' = Op("file_removed", i, TRUE)
    /\ UNCHANGED << recvars, toolvars, current_session, step_counter, log_data, annvars >>


\* ------------------------------------------------------------ the program
\* the state after the module has been imported
Init ==
    /\ recording = FALSE
    /\ paused = FALSE
    /\ current_session = None
    /\ step_counter = 1
    /\ log_data = << >>
    /\ event_queue = << >>
    /\ step_objects = EmptyDict
    /\ step_crops = EmptyDict
    /\ undo_stacks = EmptyDict
    /\ annotation_tool = "none"
    /\ draw_color = DefaultColor
    /\ draw_width = 3
    /\ step_cards = << >>
    /\ active_card_ref = None
    /\ selected = {}
    /\ files = EmptyDict
    /\ steps_json = None
    /\ button_down = None
    /\ last_op = Op("init", -1, TRUE)
    /\ ops_left = MaxOps

\* the whole program: every handler, from the start of the program
StepPts == { << 0, 0 >>, << 50, 50 >> }
ItemSeqs == { << "image" >>, << "text" >>, << "image", "text" >> }

Next ==
    \/ StartRecording
    \/ StopRecording
    \/ ContinueRecording
    \/ TogglePause
    \/ OnClick
    \/ OnPressKey
    \/ \E ok \in BOOLEAN : ProcessQueue(ok)
    \/ LoadRecording
    \/ \E pos \in 0 .. MaxSteps, img \in BOOLEAN : InsertCustomStep(pos, img)
    \/ \E kinds \in ItemSeqs : HandlePaste(kinds)
    \/ \E pos \in 0 .. MaxSteps, kinds \in ItemSeqs : HandleFileDrop(pos, kinds)
    \/ \E S \in SUBSET (0 .. (MaxSteps - 1)) : SidebarSelect(S)
    \/ DeleteSelectedSteps
    \/ \E i \in 0 .. (MaxSteps - 1) : DeleteStepButton(i)
    \/ \E src, dst \in 0 .. (MaxSteps - 1) : ReorderStep(src, dst)
    \/ \E i \in 0 .. (MaxSteps - 1) : MoveUp(i)
    \/ \E i \in 0 .. (MaxSteps - 1) : MoveDown(i)
    \/ \E i \in 0 .. (MaxSteps - 1), p \in StepPts, ctrl \in BOOLEAN :
          OnPress(i, p[1], p[2], ctrl)
    \/ \E p \in StepPts : OnDrag(p[1], p[2])
    \/ \E p \in StepPts : OnRelease(p[1], p[2])
    \/ \E t \in TOOLS : OnToolHotkey(t)
    \/ \E t \in TOOLS : ToolButton(t)
    \/ OnUndoKey
    \/ \E i \in 0 .. (MaxSteps - 1) : UndoButton(i)
    \/ \E i \in 0 .. (MaxSteps - 1) : ResetCropButton(i)
    \/ \E c \in { DefaultColor, OtherColor } : SetDrawColor(c)
    \/ OnDeleteKeyObject

Spec == Init /\ [][Next]_vars

\* ------------------------------------------------------------ an opened recording
\* The state after _do_load_recording has opened a recording that the program
\* saved earlier: a captured step, with or without a highlight and a crop,
\* followed by a text-only step or by a pasted image with a redaction.
SavedHighlight ==
    [type |-> "highlight", color |-> DefaultColor, width |-> RectWidth,
     x1 |-> 0, y1 |-> 0, x2 |-> 100, y2 |-> 100]
SavedRedact ==
    [type |-> "redact", color |-> DefaultColor, width |-> RectWidth,
     x1 |-> 0, y1 |-> 0, x2 |-> 50, y2 |-> 50]
SavedCrop == [x1 |-> 0, y1 |-> 0, x2 |-> 100, y2 |-> 100]

OpenedRecording ==
    /\ recording = FALSE
    /\ paused = FALSE
    /\ current_session = Some("session")
    /\ event_queue = << >>
    /\ \E objs0 \in { << >>, << SavedHighlight >> },
          crop0 \in { JNull, SavedCrop },
          second \in { "text", "image" } :
         LET shot2 == IF second = "image" THEN Some(<< "paste", 1 >>) ELSE None
             objs2 == IF second = "image" THEN << SavedRedact >> ELSE << >>
             saved == << [step |-> 1, screenshot |-> Some(<< "step", 1 >>),
                          objects |-> objs0, crop |-> crop0],
                         [step |-> 2, screenshot |-> shot2,
                          objects |-> objs2, crop |-> JNull] >>
             r == load_steps(saved)
         IN  /\ steps_json = Some(saved)
             /\ files = IF second = "image"
                        THEN (<< "step", 1 >> :> ScreenSize) @@ (<< "paste", 1 >> :> PastedSize)
                        ELSE (<< "step", 1 >> :> ScreenSize)
             /\ log_data = r.log
             /\ step_objects = r.objs
             /\ step_crops = r.crops
    /\ step_counter = Len(log_data) + 1
    /\ undo_stacks = EmptyDict
    /\ annotation_tool = "none"
    /\ draw_color = DefaultColor
    /\ draw_width = 3
    /\ step_cards = build_all_cards(current_session, log_data, step_crops, files)
    /\ active_card_ref = None
    /\ selected = {}
    /\ button_down = None
    /\ last_op = [name |-> "load", step |-> -1, ret |-> TRUE, had_undo |-> FALSE]

InitSteps == OpenedRecording /\ ops_left = MaxOpsSteps

\* the operations on the step list, with the canvas gestures that fill the
\* undo stacks
NextSteps ==
    \/ LoadRecording
    \/ \E pos \in 0 .. MaxSteps, img \in BOOLEAN : InsertCustomStep(pos, img)
    \/ \E kinds \in ItemSeqs : HandlePaste(kinds)
    \/ \E pos \in 0 .. MaxSteps, kinds \in ItemSeqs : HandleFileDrop(pos, kinds)
    \/ \E S \in SUBSET (0 .. (MaxSteps - 1)) : SidebarSelect(S)
    \/ DeleteSelectedSteps
    \/ \E i \in 0 .. (MaxSteps - 1) : DeleteStepButton(i)
    \/ \E src, dst \in 0 .. (MaxSteps - 1) : ReorderStep(src, dst)
    \/ \E i \in 0 .. (MaxSteps - 1) : MoveUp(i)
    \/ \E i \in 0 .. (MaxSteps - 1) : MoveDown(i)
    \/ \E i \in 0 .. (MaxSteps - 1), p \in StepPts : OnPress(i, p[1], p[2], FALSE)
    \/ \E p \in StepPts : OnRelease(p[1], p[2])
    \/ \E t \in TOOLS : ToolButton(t)

SpecSteps == InitSteps /\ [][NextSteps]_vars

\* ------------------------------------------------------------ the recorder
\* The opened recording with the recorder running beside the editor: the
\* listener threads, the UI timer, and the operations on the step list and
\* the canvas that a capture may follow.
InitCapture == OpenedRecording /\ ops_left = MaxOpsCapture

NextCapture ==
    \/ StartRecording
    \/ StopRecording
    \/ ContinueRecording
    \/ TogglePause
    \/ OnClick
    \/ OnPressKey
    \/ \E ok \in BOOLEAN : ProcessQueue(ok)
    \/ \E img \in BOOLEAN : InsertCustomStep(0, img)
    \/ \E i \in 0 .. (MaxSteps - 1) : DeleteStepButton(i)
    \/ \E i \in 0 .. (MaxSteps - 1) : MoveUp(i)
    \/ \E i \in 0 .. (MaxSteps - 1) : OnPress(i, 0, 0, FALSE)
    \/ OnRelease(0, 0)

SpecCapture == InitCapture /\ [][NextCapture]_vars

\* ------------------------------------------------------------ the annotation editor
\* One step on screen, recording stopped: the state after start_recording, one
\* step (a capture, or an image pasted with Ctrl+V) and stop_recording.
EditPts == { << 0, 0 >>, << 50, 50 >> }

EditorStart ==
    /\ recording = FALSE
    /\ paused = FALSE
    /\ current_session = Some("session")
    /\ step_counter = 2
    /\ \E shot \in { << "step", 1 >>, << "paste", 1 >> } :
         /\ log_data = << Entry(1, Some(shot)) >>
         /\ files = (shot :> (IF shot[1] = "step" THEN ScreenSize ELSE PastedSize))
    /\ event_queue = << >>
    /\ step_objects = (0 :> << >>)
    /\ step_crops = EmptyDict
    /\ undo_stacks = EmptyDict
    /\ annotation_tool = "none"
    /\ draw_color = DefaultColor
    /\ draw_width = 3
    /\ step_cards = build_all_cards(current_session, log_data, step_crops, files)
    /\ active_card_ref = None
    /\ selected = {}
    /\ steps_json = save_steps(current_session, log_data, step_objects, step_crops, None)
    /\ button_down = None
    /\ last_op = Op("stop_recording", -1, TRUE)

InitEdit == EditorStart /\ ops_left = MaxOpsEdit

NextEdit ==
    \/ \E p \in EditPts, ctrl \in BOOLEAN : OnPress(0, p[1], p[2], ctrl)
    \/ \E p \in EditPts : OnDrag(p[1], p[2])
    \/ \E p \in EditPts : OnRelease(p[1], p[2])
    \/ \E t \in TOOLS : ToolButton(t)
    \/ \E t \in TOOLS : OnToolHotkey(t)
    \/ OnUndoKey
    \/ UndoButton(0)
    \/ ResetCropButton(0)
    \/ \E c \in { DefaultColor, OtherColor } : SetDrawColor(c)
    \/ OnDeleteKeyObject

SpecEdit == InitEdit /\ [][NextEdit]_vars

\* ------------------------------------------------------------ the create gestures
\* The same editor, with the canvas points that make rectangles and crops
\* below, at and above the minimum sizes.
CreatePts == { << 0, 0 >>, << 5, 5 >>, << 10, 10 >>, << 12, 11 >>, << 50, 50 >> }

InitCreate == EditorStart /\ ops_left = MaxOpsCreate

NextCreate ==
    \/ \E p \in CreatePts, ctrl \in BOOLEAN : OnPress(0, p[1], p[2], ctrl)
    \/ \E p \in CreatePts : OnDrag(p[1], p[2])
    \/ \E p \in CreatePts : OnRelease(p[1], p[2])
    \/ \E t \in TOOLS : ToolButton(t)
    \/ \E t \in TOOLS : OnToolHotkey(t)
    \/ OnUndoKey
    \/ UndoButton(0)
    \/ ResetCropButton(0)
    \/ \E c \in { DefaultColor, OtherColor } : SetDrawColor(c)
    \/ OnDeleteKeyObject

SpecCreate == InitCreate /\ [][NextCreate]_vars

\* ------------------------------------------------------------ the crop of a step
\* The opened recording with everything that writes step_crops: the crop
\* gesture below and above the minimum size, undo, crop reset, and the
\* inserts, deletes, reorders and moves of steps that re-key the crops.
MaxOpsCrop == 4   \* handler runs explored with the crop gesture and the step list
CropPts == { << 0, 0 >>, << 5, 5 >>, << 50, 50 >> }

InitCrop == OpenedRecording /\ ops_left = MaxOpsCrop

NextCrop ==
    \/ \E t \in { "crop", "highlight" } : ToolButton(t)
    \/ \E t \in { "crop", "highlight" } : OnToolHotkey(t)
    \/ \E i \in 0 .. (MaxSteps - 1), p \in CropPts : OnPress(i, p[1], p[2], FALSE)
    \/ \E p \in CropPts : OnRelease(p[1], p[2])
    \/ OnUndoKey
    \/ \E i \in 0 .. (MaxSteps - 1) : UndoButton(i)
    \/ \E i \in 0 .. (MaxSteps - 1) : ResetCropButton(i)
    \/ \E pos \in 0 .. MaxSteps : InsertCustomStep(pos, TRUE)
    \/ \E i \in 0 .. (MaxSteps - 1) : DeleteStepButton(i)
    \/ \E src, dst \in 0 .. (MaxSteps - 1) : ReorderStep(src, dst)
    \/ \E i \in 0 .. (MaxSteps - 1) : MoveUp(i)
    \/ \E i \in 0 .. (MaxSteps - 1) : MoveDown(i)

SpecCrop == InitCrop /\ [][NextCrop]_vars


\* ------------------------------------------------------------ select, move, resize, delete
\* One captured step, opened from a recording that the program saved with
\* three objects on it: the highlight of the gesture (0,0)-(50,50), the
\* stroke of the gesture (30,30), (50,70), (70,50), which overlaps the
\* highlight, and the single-point stroke of a press and release at (150,150).
\* The pointer positions are the inside of each object, the overlap, an empty
\* spot, and the eight handles of the highlight and of the stroke.
MaxOpsTransform == 5   \* handler runs explored with the select tool

SavedStroke ==
    [type |-> "draw", color |-> DefaultColor, width |-> 3,
     points |-> << << I(60), I(60) >>, << I(100), I(140) >>, << I(140), I(100) >> >>]
SavedDot ==
    [type |-> "draw", color |-> DefaultColor, width |-> 3,
     points |-> << << I(300), I(300) >> >>]
SavedTiny ==
    [type |-> "draw", color |-> DefaultColor, width |-> 3,
     points |-> << << I(600), I(600) >>, << I(602), I(602) >> >>]

InsidePts ==
    { << 10, 10 >>, << 60, 60 >>, << 40, 40 >>, << 150, 150 >>, << 200, 200 >>,
      << 300, 300 >> }
RectHandlePts ==
    { << 0, 0 >>, << 25, 0 >>, << 50, 0 >>, << 0, 25 >>, << 50, 25 >>,
      << 0, 50 >>, << 25, 50 >>, << 50, 50 >> }
StrokeHandlePts ==
    { << 30, 30 >>, << 50, 30 >>, << 70, 30 >>, << 30, 50 >>, << 70, 50 >>,
      << 30, 70 >>, << 50, 70 >>, << 70, 70 >> }
TinyHandlePts == { << 310, 310 >> }
TransformPressPts == InsidePts \cup RectHandlePts \cup StrokeHandlePts \cup TinyHandlePts
TransformDragPts ==
    { << 10, 10 >>, << 20, 35 >>, << 60, 60 >>, << 90, 80 >>, << 311, 311 >> }

AnnotatedStep ==
    /\ recording = FALSE
    /\ paused = FALSE
    /\ current_session = Some("session")
    /\ event_queue = << >>
    /\ LET saved == << [step |-> 1, screenshot |-> Some(<< "step", 1 >>),
                        objects |-> << SavedHighlight, SavedStroke, SavedDot, SavedTiny >>,
                        crop |-> JNull] >>
           r == load_steps(saved)
       IN  /\ steps_json = Some(saved)
           /\ files = (<< "step", 1 >> :> ScreenSize)
           /\ log_data = r.log
           /\ step_objects = r.objs
           /\ step_crops = r.crops
    /\ step_counter = Len(log_data) + 1
    /\ undo_stacks = EmptyDict
    /\ annotation_tool = "none"
    /\ draw_color = DefaultColor
    /\ draw_width = 3
    /\ step_cards = build_all_cards(current_session, log_data, step_crops, files)
    /\ active_card_ref = None
    /\ selected = {}
    /\ button_down = None
    /\ last_op = [name |-> "load", step |-> -1, ret |-> TRUE, had_undo |-> FALSE]

InitTransform == AnnotatedStep /\ ops_left = MaxOpsTransform

NextTransform ==
    \/ \E p \in TransformPressPts, ctrl \in BOOLEAN : OnPress(0, p[1], p[2], ctrl)
    \/ \E p \in TransformDragPts : OnDrag(p[1], p[2])
    \/ OnRelease(0, 0)
    \/ OnUndoKey
    \/ OnDeleteKeyObject

SpecTransform == InitTransform /\ [][NextTransform]_vars


\* ------------------------------------------------------------ the view of a step
\* An opened recording with one captured step whose crop was saved by earlier
\* crop gestures, at display scales of 0.5 (no crop), 1, 0.86, 0.573 and
\* 0.506, and the crop and stroke gestures on that view.
MaxOpsView == 4   \* handler runs explored on the cropped view

ViewCrops ==
    { JNull,
      [x1 |-> 100, y1 |-> 50, x2 |-> 300, y2 |-> 250],
      [x1 |-> 0, y1 |-> 0, x2 |-> 1000, y2 |-> 600],
      [x1 |-> 0, y1 |-> 0, x2 |-> 1500, y2 |-> 1000],
      [x1 |-> 10, y1 |-> 10, x2 |-> 1710, y2 |-> 22] }
ViewPts == { << 0, 0 >>, << 7, 3 >>, << 150, 125 >>, << 500, 300 >> }

CroppedStep ==
    /\ recording = FALSE
    /\ paused = FALSE
    /\ current_session = Some("session")
    /\ event_queue = << >>
    /\ \E crop0 \in ViewCrops :
         LET saved == << [step |-> 1, screenshot |-> Some(<< "step", 1 >>),
                          objects |-> << SavedStroke >>, crop |-> crop0] >>
             r == load_steps(saved)
         IN  /\ steps_json = Some(saved)
             /\ files = (<< "step", 1 >> :> ScreenSize)
             /\ log_data = r.log
             /\ step_objects = r.objs
             /\ step_crops = r.crops
    /\ step_counter = Len(log_data) + 1
    /\ undo_stacks = EmptyDict
    /\ annotation_tool = "none"
    /\ draw_color = DefaultColor
    /\ draw_width = 3
    /\ step_cards = build_all_cards(current_session, log_data, step_crops, files)
    /\ active_card_ref = None
    /\ selected = {}
    /\ button_down = None
    /\ last_op = [name |-> "load", step |-> -1, ret |-> TRUE, had_undo |-> FALSE]

InitView == CroppedStep /\ ops_left = MaxOpsView

NextView ==
    \/ \E t \in { "crop", "draw" } : ToolButton(t)
    \/ \E p \in ViewPts : OnPress(0, p[1], p[2], FALSE)
    \/ \E p \in ViewPts : OnDrag(p[1], p[2])
    \/ \E p \in ViewPts : OnRelease(p[1], p[2])
    \/ OnUndoKey
    \/ ResetCropButton(0)

SpecView == InitView /\ [][NextView]_vars


\* ------------------------------------------------------------ thumbnails and export
\* The opened recording with the operations that call _flatten_to_pil (the
\* thumbnails of the list and grid views, the HTML and the PDF export), the
\* gestures, undo and step moves that change what it reads or what it must
\* not read, and the loss of a screenshot file.
MaxOpsExport == 4   \* handler runs explored around the flatten calls

InitExport == OpenedRecording /\ ops_left = MaxOpsExport

NextExport ==
    \/ \E i \in 0 .. (MaxSteps - 1) : LoadThumb(i)
    \/ \E pdf \in BOOLEAN : Export(pdf)
    \/ \E i \in 0 .. (MaxSteps - 1) : ScreenshotRemoved(i)
    \/ \E t \in { "highlight", "crop" } : ToolButton(t)
    \/ \E i \in 0 .. (MaxSteps - 1), p \in StepPts, ctrl \in BOOLEAN :
          OnPress(i, p[1], p[2], ctrl)
    \/ \E p \in StepPts : OnRelease(p[1], p[2])
    \/ OnUndoKey
    \/ \E i \in 0 .. (MaxSteps - 1) : MoveDown(i)

SpecExport == InitExport /\ [][NextExport]_vars


\* ------------------------------------------------------------ the crop clamp
MaxOpsClamp == 2   \* handler runs explored on the step opened with a stored crop
ClampSizes == { << 1, 1 >>, << 100, 80 >>, << 1720, 1000 >> }   \* image sizes w x h
ClampCorners == { -5, 0, 40, 100, 300 }   \* corner coordinates of a stored crop

\* a recording opened from a manifest of one step whose image has one of the
\* sizes and whose crop has any corners, in any order: _do_load_recording
\* takes the crop of the manifest as it is
StoredCrop ==
    /\ recording = FALSE
    /\ paused = FALSE
    /\ current_session = Some("session")
    /\ event_queue = << >>
    /\ \E size \in ClampSizes, a, b, c, d \in ClampCorners :
         LET saved == << [step |-> 1, screenshot |-> Some(<< "step", 1 >>),
                          objects |-> << SavedHighlight >>,
                          crop |-> [x1 |-> a, y1 |-> b, x2 |-> c, y2 |-> d]] >>
             r == load_steps(saved)
         IN  /\ steps_json = Some(saved)
             /\ files = (<< "step", 1 >> :> size)
             /\ log_data = r.log
             /\ step_objects = r.objs
             /\ step_crops = r.crops
    /\ step_counter = Len(log_data) + 1
    /\ undo_stacks = EmptyDict
    /\ annotation_tool = "none"
    /\ draw_color = DefaultColor
    /\ draw_width = 3
    /\ step_cards = build_all_cards(current_session, log_data, step_crops, files)
    /\ active_card_ref = None
    /\ selected = {}
    /\ button_down = None
    /\ last_op = [name |-> "load", step |-> -1, ret |-> TRUE, had_undo |-> FALSE]

InitClamp == StoredCrop /\ ops_left = MaxOpsClamp

NextClamp ==
    \/ LoadThumb(0)
    \/ ResetCropButton(0)
    \/ UndoButton(0)

SpecClamp == InitClamp /\ [][NextClamp]_vars

\* ------------------------------------------------------------ saved and loaded
MaxOpsPersist == 4   \* handler runs explored between saving and loading

\* the records a manifest may hold for the first step: with objects and crop,
\* with a null crop, without the crop field, without both fields
FirstRecords ==
    { [step |-> 1, screenshot |-> Some(<< "step", 1 >>),
       objects |-> << SavedHighlight, SavedStroke >>, crop |-> SavedCrop],
      [step |-> 1, screenshot |-> Some(<< "step", 1 >>),
       objects |-> << SavedHighlight >>, crop |-> JNull],
      [step |-> 1, screenshot |-> Some(<< "step", 1 >>),
       objects |-> << SavedRedact >>],
      [step |-> 1, screenshot |-> Some(<< "step", 1 >>)] }
SecondRecords ==
    { [step |-> 2, screenshot |-> Some(<< "paste", 1 >>),
       objects |-> << SavedRedact >>, crop |-> JNull],
      [step |-> 2, screenshot |-> Some(<< "paste", 1 >>)] }

\* a recording opened from a manifest of two steps
OpenedManifest ==
    /\ recording = FALSE
    /\ paused = FALSE
    /\ current_session = Some("session")
    /\ event_queue = << >>
    /\ \E first \in FirstRecords, second \in SecondRecords :
         LET r == load_steps(<< first, second >>)
         IN  /\ steps_json = Some(<< first, second >>)
             /\ files = (<< "step", 1 >> :> ScreenSize) @@ (<< "paste", 1 >> :> PastedSize)
             /\ log_data = r.log
             /\ step_objects = r.objs
             /\ step_crops = r.crops
    /\ step_counter = Len(log_data) + 1
    /\ undo_stacks = EmptyDict
    /\ annotation_tool = "none"
    /\ draw_color = DefaultColor
    /\ draw_width = 3
    /\ step_cards = build_all_cards(current_session, log_data, step_crops, files)
    /\ active_card_ref = None
    /\ selected = {}
    /\ button_down = None
    /\ last_op = [name |-> "load", step |-> -1, ret |-> TRUE, had_undo |-> FALSE]

InitPersist == OpenedManifest /\ ops_left = MaxOpsPersist

NextPersist ==
    \/ LoadRecording
    \/ \E t \in { "highlight", "crop" } : ToolButton(t)
    \/ \E i \in 0 .. 1, p \in StepPts : OnPress(i, p[1], p[2], FALSE)
    \/ \E p \in StepPts : OnRelease(p[1], p[2])
    \/ \E i \in 0 .. 1 : UndoButton(i)
    \/ \E i \in 0 .. 1 : ResetCropButton(i)
    \/ \E i \in 0 .. 1 : MoveDown(i)

SpecPersist == InitPersist /\ [][NextPersist]_vars


\* ------------------------------------------------------------ a resize after a resize
\* An opened recording with one captured step and one highlight, stored
\* either as it was created or as a resize that dragged the left edge past
\* the right one left it (the run press (0,25), release, press (0,25), drag to
\* (90,80), release saves the second from the first), and the resize of it.
MaxOpsFlip == 5   \* handler runs explored with the resize of a rect
FlippedHighlight ==
    [type |-> "highlight", color |-> DefaultColor, width |-> RectWidth,
     x1 |-> 180, y1 |-> 0, x2 |-> 100, y2 |-> 100]
FlipPressPts == { << 10, 10 >>, << 0, 25 >>, << 50, 25 >>, << 70, 25 >>, << 90, 25 >> }
FlipDragPts == { << 90, 80 >>, << 20, 35 >> }

OneHighlight ==
    /\ recording = FALSE
    /\ paused = FALSE
    /\ current_session = Some("session")
    /\ event_queue = << >>
    /\ \E rect \in { SavedHighlight, FlippedHighlight } :
         LET saved == << [step |-> 1, screenshot |-> Some(<< "step", 1 >>),
                          objects |-> << rect >>, crop |-> JNull] >>
             r == load_steps(saved)
         IN  /\ steps_json = Some(saved)
             /\ files = (<< "step", 1 >> :> ScreenSize)
             /\ log_data = r.log
             /\ step_objects = r.objs
             /\ step_crops = r.crops
    /\ step_counter = Len(log_data) + 1
    /\ undo_stacks = EmptyDict
    /\ annotation_tool = "none"
    /\ draw_color = DefaultColor
    /\ draw_width = 3
    /\ step_cards = build_all_cards(current_session, log_data, step_crops, files)
    /\ active_card_ref = None
    /\ selected = {}
    /\ button_down = None
    /\ last_op = [name |-> "load", step |-> -1, ret |-> TRUE, had_undo |-> FALSE]

InitFlip == OneHighlight /\ ops_left = MaxOpsFlip

NextFlip ==
    \/ \E p \in FlipPressPts : OnPress(0, p[1], p[2], FALSE)
    \/ \E p \in FlipDragPts : OnDrag(p[1], p[2])
    \/ OnRelease(0, 0)

SpecFlip == InitFlip /\ [][NextFlip]_vars


\* ------------------------------------------------------------ the Delete key
MaxOpsDeleteKey == 4   \* handler runs explored around the Delete key

InitDeleteKey == OpenedRecording /\ ops_left = MaxOpsDeleteKey

NextDeleteKey ==
    \/ \E i \in 0 .. (MaxSteps - 1), p \in StepPts, ctrl \in BOOLEAN :
          OnPress(i, p[1], p[2], ctrl)
    \/ \E p \in StepPts : OnRelease(p[1], p[2])
    \/ \E yes \in BOOLEAN : OnRootKey(yes)
    \/ OnUndoKey
    \/ \E t \in { "none", "highlight" } : ToolButton(t)

SpecDeleteKey == InitDeleteKey /\ [][NextDeleteKey]_vars


\* ------------------------------------------------------------ screenshot files
\* A recording of two captured steps, stopped: the state after
\* start_recording, two captures and stop_recording.
MaxOpsFiles == 5   \* handler runs explored with captures, deletions and loads

TwoCaptures ==
    /\ recording = FALSE
    /\ paused = FALSE
    /\ current_session = Some("session")
    /\ step_counter = 3
    /\ log_data = << Entry(1, Some(<< "step", 1 >>)), Entry(2, Some(<< "step", 2 >>)) >>
    /\ files = (<< "step", 1 >> :> ScreenSize) @@ (<< "step", 2 >> :> ScreenSize)
    /\ event_queue = << >>
    /\ step_objects = (0 :> << >>) @@ (1 :> << >>)
    /\ step_crops = EmptyDict
    /\ undo_stacks = EmptyDict
    /\ steps_json = save_steps(current_session, log_data, step_objects, step_crops, None)
    /\ annotation_tool = "none"
    /\ draw_color = DefaultColor
    /\ draw_width = 3
    /\ step_cards = build_all_cards(current_session, log_data, step_crops, files)
    /\ active_card_ref = None
    /\ selected = {}
    /\ button_down = None
    /\ last_op = Op("stop_recording", -1, TRUE)

InitFiles == TwoCaptures /\ ops_left = MaxOpsFiles

NextFiles ==
    \/ ContinueRecording
    \/ StopRecording
    \/ OnClick
    \/ \E ok \in BOOLEAN : ProcessQueue(ok)
    \/ \E i \in 0 .. (MaxSteps - 1) : DeleteStepButton(i)
    \/ \E pos \in 0 .. MaxSteps, img \in BOOLEAN : InsertCustomStep(pos, img)
    \/ LoadRecording

SpecFiles == InitFiles /\ [][NextFiles]_vars


\* ------------------------------------------------------------ two steps, one gesture
\* The opened recording of two steps with every annotation gesture on
\* either step: create, move, resize, recolour, delete object, crop, crop
\* reset and undo.
MaxOpsIsolation == 5   \* handler runs explored with gestures on two steps

InitIsolation == OpenedRecording /\ ops_left = MaxOpsIsolation

NextIsolation ==
    \/ \E t \in { "none", "highlight", "crop", "draw" } : ToolButton(t)
    \/ \E i \in 0 .. 1, p \in StepPts, ctrl \in BOOLEAN : OnPress(i, p[1], p[2], ctrl)
    \/ \E p \in StepPts : OnDrag(p[1], p[2])
    \/ \E p \in StepPts : OnRelease(p[1], p[2])
    \/ \E i \in 0 .. 1 : UndoButton(i)
    \/ OnUndoKey
    \/ \E i \in 0 .. 1 : ResetCropButton(i)
    \/ SetDrawColor(OtherColor)
    \/ OnDeleteKeyObject

SpecIsolation == InitIsolation /\ [][NextIsolation]_vars


\* ------------------------------------------------------------ properties: undo
\* the step taken is a run of StepCard._undo
UndoStep == last_op'.name = "undo"
UndoOk == UndoStep /\ last_op'.ret
UndoneStep == last_op'.step

\* C1: undo round trip.  Whatever has been done to a step since a snapshot
\* was pushed, popping that snapshot returns True and makes the step's
\* objects and crop equal to what they were at the moment of the push; the
\* step has no crop entry if it had no crop then.
C1_UndoRoundTrip ==
    [][UndoStep /\ StackOf(undo_stacks, UndoneStep) # << >> =>
         LET i == UndoneStep
             then == Last(StackOf(undo_stacks, i)).at_push
         IN  /\ last_op'.ret
             /\ LiveState(step_objects', step_crops', i) = then
             /\ then.crop = None => ~Has(step_crops', i)]_vars

\* an undo has brought back objects and a crop that had been changed since
C1_Witness ==
    /\ last_op.name = "undo" /\ last_op.ret /\ last_op.changed
    /\ ObjectsOf(step_objects, 0) # << >>
    /\ CropOf(step_crops, 0) # None

\* the step taken is an annotation edit made in one handler run: a release
\* that commits a rectangle, a stroke or a crop, a crop reset, a recolour or
\* a deletion of an object
CommitStep ==
    /\ last_op'.name \in {"release", "reset_crop", "recolor", "delete_object"}
    /\ LiveState(step_objects', step_crops', last_op'.step)
         # LiveState(step_objects, step_crops, last_op'.step)

\* the step taken is a <B1-Motion> that moves or resizes the selected object
TransformStep ==
    /\ last_op'.name = "drag"
    /\ step_objects' # step_objects

\* the top snapshot of step i after the step taken
TopAfter(i) == json_loads(Last(StackOf(undo_stacks', i)).json)

\* C2: every annotation edit is preceded by a push of the pre-edit state:
\* right after an edit the top snapshot of the step's undo stack is the
\* step's {objects, crop} from before the edit began (for a move or a resize,
\* the state with the dragged object as it was at the press).
C2_EditPrecededByPush ==
    [][/\ CommitStep =>
            /\ StackOf(undo_stacks', last_op'.step) # << >>
            /\ TopAfter(last_op'.step)
                 = LiveState(step_objects, step_crops, last_op'.step)
       /\ TransformStep =>
            LET i == last_op'.step
                card == step_cards[i + 1]
                before == SetAt(ObjectsOf(step_objects, i), Val(card.selected_obj) + 1,
                                Val(card.drag_info).obj_snapshot)
            IN  /\ StackOf(undo_stacks', i) # << >>
                /\ TopAfter(i) = [objects |-> before, crop |-> CropOf(step_crops, i)]
      ]_vars

\* C3: undo on a step whose stack is empty or missing returns False and
\* changes neither the objects, the crops, the undo stacks nor the card
\* (selection, drag); so any number of such calls leaves the same state.
C3_UndoOnEmpty ==
    [][UndoStep /\ StackOf(undo_stacks, UndoneStep) = << >> =>
         /\ ~last_op'.ret
         /\ step_objects' = step_objects
         /\ step_crops' = step_crops
         /\ undo_stacks' = undo_stacks
         /\ step_cards' = step_cards
         /\ steps_json' = steps_json]_vars

\* undo has failed on a stack that exists and is empty, with objects on the step
C3_Witness ==
    /\ last_op.name = "undo" /\ ~last_op.ret
    /\ Has(undo_stacks, 0) /\ undo_stacks[0] = << >>
    /\ ObjectsOf(step_objects, 0) # << >>

\* C4: a successful undo overwrites the live objects and crop with the top
\* snapshot, removes that snapshot, and leaves the card with no selected
\* object and no drag, whatever gesture was in progress.
C4_UndoOverwrites ==
    [][UndoOk =>
         LET i == UndoneStep
             stack == StackOf(undo_stacks, i)
         IN  /\ stack # << >>
             /\ LiveState(step_objects', step_crops', i) = json_loads(Last(stack).json)
             /\ StackOf(undo_stacks', i) = Front(stack)
             /\ step_cards'[i + 1].selected_obj = None
             /\ step_cards'[i + 1].drag_info = None]_vars

\* an undo has succeeded while the button was held, with a snapshot left
C4_Witness ==
    /\ last_op.name = "undo" /\ last_op.ret
    /\ button_down # None
    /\ StackOf(undo_stacks, 0) # << >>

\* ------------------------------------------------------------ properties: create gestures
\* the step taken is a <ButtonRelease-1> that ends a create gesture of the
\* tools in T: the tool is one of T and the press has left its start point
ReleaseOf(T) ==
    /\ last_op'.name = "release"
    /\ annotation_tool \in T
    /\ step_cards[last_op'.step + 1].create_start # None

\* the image-space ends of the gesture that the step taken releases
GestureStart ==
    LET card == step_cards[last_op'.step + 1] IN
    canvas_to_img(card, Val(card.create_start)[1], Val(card.create_start)[2])
GestureEnd ==
    canvas_to_img(step_cards[last_op'.step + 1], last_op'.at[1], last_op'.at[2])

\* C9: the release of a highlight or redact gesture commits iff the
\* rectangle is more than 4 px wide and more than 4 px high in image space.
\* Then one rect object with x1 <= x2 and y1 <= y2 is appended at the end of
\* the step's list and the objects before it keep index and value; otherwise
\* the objects are unchanged.  The crop is unchanged in both cases.
C9_RectCommit ==
    [][ReleaseOf({"highlight", "redact"}) =>
         LET i == last_op'.step
             a == GestureStart
             b == GestureEnd
             before == ObjectsOf(step_objects, i)
             after == ObjectsOf(step_objects', i)
         IN  /\ step_crops' = step_crops
             /\ IF Abs(b[1] - a[1]) > 4 /\ Abs(b[2] - a[2]) > 4
                THEN /\ Len(after) = Len(before) + 1
                     /\ SubSeq(after, 1, Len(before)) = before
                     /\ Last(after).type = annotation_tool
                     /\ Last(after).x1 <= Last(after).x2
                     /\ Last(after).y1 <= Last(after).y2
                     /\ { Last(after).x1, Last(after).x2 } = { a[1], b[1] }
                     /\ { Last(after).y1, Last(after).y2 } = { a[2], b[2] }
                ELSE step_objects' = step_objects]_vars

\* a release has appended a rectangle behind an object that was there before
C9_Witness ==
    /\ last_op.name = "release" /\ last_op.changed
    /\ annotation_tool \in {"highlight", "redact"}
    /\ Len(ObjectsOf(step_objects, 0)) = 2
    /\ IsRect(Last(ObjectsOf(step_objects, 0)))

\* C10: the release of a crop gesture sets the step's crop to the normalized
\* image-space rectangle iff that rectangle is more than 10 px wide and more
\* than 10 px high; otherwise the crop keeps its previous value (none if it
\* had none).  The objects are unchanged in both cases.
C10_CropCommit ==
    [][ReleaseOf({"crop"}) =>
         LET i == last_op'.step
             a == GestureStart
             b == GestureEnd
         IN  /\ step_objects' = step_objects
             /\ IF Abs(b[1] - a[1]) > 10 /\ Abs(b[2] - a[2]) > 10
                THEN /\ Has(step_crops', i)
                     /\ step_crops'[i] = Some([x1 |-> Min2(a[1], b[1]),
                                               y1 |-> Min2(a[2], b[2]),
                                               x2 |-> Max2(a[1], b[1]),
                                               y2 |-> Max2(a[2], b[2])])
                     /\ \A k \in (DOMAIN step_crops) \ {i} :
                          Has(step_crops', k) /\ step_crops'[k] = step_crops[k]
                ELSE step_crops' = step_crops]_vars

\* the crop gesture (0,0)-(50,50) has set the crop {0,0,50,50} of a step
\* that has an object
C10_Witness ==
    /\ last_op.name = "release" /\ last_op.changed
    /\ annotation_tool = "crop"
    /\ CropOf(step_crops, 0) = Some([x1 |-> 0, y1 |-> 0, x2 |-> 50, y2 |-> 50])
    /\ ObjectsOf(step_objects, 0) # << >>

\* ------------------------------------------------------------ properties: the step list
\* the step taken renumbers or reorders the steps
RenumberStep ==
    last_op'.name \in {"insert", "delete_steps", "reorder", "move_up", "move_down", "load"}

\* the indices of the steps after the step taken
StepIdxAfter == 0 .. (Len(log_data') - 1)

\* step j after the step taken is step k before it: same entry (but for
\* its number), same objects, same crop or absence of crop
SameStep(j, k) ==
    /\ log_data'[j + 1].screenshot = log_data[k + 1].screenshot
    /\ log_data'[j + 1].step = j + 1
    /\ ObjectsOf(step_objects', j) = ObjectsOf(step_objects, k)
    /\ CropOf(step_crops', j) = CropOf(step_crops, k)

OldOfDelete(D, j) ==
    CHOOSE k \in StepIdx \ D : Cardinality({ m \in StepIdx \ D : m < k }) = j

\* the old index of the step found at index j after _reorder_step(src, dst)
OldOfReorder(src, dst, j) ==
    IF j = dst THEN src
    ELSE IF src < dst /\ src <= j /\ j < dst THEN j + 1
    ELSE IF dst < src /\ dst < j /\ j <= src THEN j - 1
    ELSE j

\* the old index of the step found at index j after steps a and b are swapped
OldOfSwap(a, b, j) == IF j = a THEN b ELSE IF j = b THEN a ELSE j

\* C6: after a delete, a _reorder_step and a move up or down, every
\* surviving step is found at its new dense index with the objects and the
\* crop (or absence of crop) it had before.
C6_MapsFollowSteps ==
    [][/\ last_op'.name = "delete_steps" =>
            /\ Len(log_data') = Cardinality(StepIdx \ last_op'.deleted)
            /\ \A j \in StepIdxAfter : SameStep(j, OldOfDelete(last_op'.deleted, j))
       /\ last_op'.name = "reorder" =>
            /\ Len(log_data') = Len(log_data)
            /\ \A j \in StepIdxAfter :
                 SameStep(j, OldOfReorder(last_op'.step, last_op'.dst, j))
       /\ last_op'.name = "move_up" =>
            /\ Len(log_data') = Len(log_data)
            /\ \A j \in StepIdxAfter :
                 SameStep(j, OldOfSwap(last_op'.step, last_op'.step - 1, j))
       /\ last_op'.name = "move_down" =>
            /\ Len(log_data') = Len(log_data)
            /\ \A j \in StepIdxAfter :
                 SameStep(j, OldOfSwap(last_op'.step, last_op'.step + 1, j))
      ]_vars

\* a reorder has exchanged the captured step, with its highlight and crop,
\* and the pasted step, with its redaction
C6_Witness ==
    /\ last_op.name = "reorder"
    /\ ObjectsOf(step_objects, 0) = << SavedRedact >>
    /\ CropOf(step_crops, 0) = None
    /\ ObjectsOf(step_objects, 1) = << SavedHighlight >>
    /\ CropOf(step_crops, 1) = Some(SavedCrop)

\* C7: an insert of c steps at position p leaves the steps below p as they
\* were, moves every step from index i >= p to index i + c, and gives the
\* new steps p .. p + c - 1 an empty object list and no crop.
C7_InsertShifts ==
    [][last_op'.name = "insert" =>
         LET p == last_op'.step
             c == last_op'.count
         IN  /\ Len(log_data') = Len(log_data) + c
             /\ \A i \in StepIdx :
                  IF i < p THEN SameStep(i, i) ELSE SameStep(i + c, i)
             /\ \A k \in p .. (p + c - 1) :
                  /\ ObjectsOf(step_objects', k) = << >>
                  /\ CropOf(step_crops', k) = None
                  /\ ~Has(step_crops', k)]_vars

\* two steps have been inserted at once in front of the captured step
\* with its highlight and crop
C7_Witness ==
    /\ last_op.name = "insert" /\ last_op.count = 2 /\ last_op.step = 0
    /\ ObjectsOf(step_objects, 2) = << SavedHighlight >>
    /\ CropOf(step_crops, 2) = Some(SavedCrop)

\* ------------------------------------------------------------ properties: capture
\* the step taken is the UI timer handling one queued capture event
CaptureStep == last_op'.name = "capture"

\* one step is appended at the end with no objects and no crop, and the
\* steps that existed keep their entry, objects, crop and undo stack
OneStepAppended ==
    LET n == Len(log_data) IN
    /\ Len(log_data') = n + 1
    /\ SubSeq(log_data', 1, n) = log_data
    /\ ObjectsOf(step_objects', n) = << >>
    /\ CropOf(step_crops', n) = None
    /\ \A i \in StepIdx :
         /\ ObjectsOf(step_objects', i) = ObjectsOf(step_objects, i)
         /\ CropOf(step_crops', i) = CropOf(step_crops, i)
         /\ StackOf(undo_stacks', i) = StackOf(undo_stacks, i)

\* C8, as stated: whenever the UI timer handles a capture event, exactly one
\* step with empty annotation state is appended and the existing steps keep
\* their objects, crop and undo stack.
C8_CaptureAlwaysAppends == [][CaptureStep => OneStepAppended]_vars

\* C8, amended: a capture event that is handled while the recording runs and
\* whose screenshot is taken appends exactly one step with empty annotation
\* state and leaves the existing steps' objects, crop and undo stack as they
\* were; any other capture event is dropped and changes nothing.
C8_CaptureOnlyAppends ==
    [][CaptureStep =>
         IF recording /\ current_session # None /\ last_op'.ret
         THEN OneStepAppended
         ELSE /\ ~last_op'.ret
              /\ UNCHANGED << log_data, step_objects, step_crops, undo_stacks,
                              step_cards, files, steps_json, step_counter >>]_vars

\* a capture has appended a step behind a step that has an object and a
\* snapshot on its undo stack, after a delete that left step_counter ahead
C8_Witness ==
    /\ last_op.name = "capture" /\ last_op.ret
    /\ step_counter > Len(log_data) + 1
    /\ ObjectsOf(step_objects, 0) # << >>
    /\ StackOf(undo_stacks, 0) # << >>

\* ------------------------------------------------------------ properties: the crop
\* C11: in every state reached by gestures, undo, crop reset and the inserts,
\* deletes, reorders and moves of steps, every step that has a crop has a
\* crop more than 10 px wide and more than 10 px high (an entry of step_crops
\* that holds None is a step without a crop).
C11_CropInvariant ==
    \A i \in DOMAIN step_crops :
        step_crops[i] # None =>
            /\ Val(step_crops[i]).x2 - Val(step_crops[i]).x1 > 10
            /\ Val(step_crops[i]).y2 - Val(step_crops[i]).y1 > 10

\* a crop made by a gesture has travelled with its step in a move that also
\* left an entry holding None behind
C11_Witness ==
    /\ last_op.name \in { "move_up", "move_down" }
    /\ \E i \in DOMAIN step_crops : step_crops[i] = None
    /\ \E j \in DOMAIN step_crops :
         step_crops[j] # None /\ Val(step_crops[j]) # SavedCrop

\* ------------------------------------------------------------ properties: the press
\* the step taken is a <ButtonPress-1> on a canvas with a tool of T active
PressOf(T) ==
    /\ last_op'.name = "press"
    /\ annotation_tool \in T

\* the step taken has pushed one snapshot of the pressed step, holding the
\* step's live {objects, crop}, and has left that live state alone
PushedAtPress ==
    LET i == last_op'.step
        before == StackOf(undo_stacks, i)
        after == StackOf(undo_stacks', i)
    IN  /\ Len(after) = Len(before) + 1
        /\ SubSeq(after, 1, Len(before)) = before
        /\ json_loads(Last(after).json) = LiveState(step_objects, step_crops, i)
        /\ step_objects' = step_objects
        /\ step_crops' = step_crops

\* the press of the stroke tool: a snapshot, and the press point as the first
\* accumulated point
StrokePress ==
    PressOf({"draw"}) =>
        /\ PushedAtPress
        /\ step_cards'[last_op'.step + 1].draw_pts = << last_op'.at >>
        /\ step_cards'[last_op'.step + 1].last_draw = Some(last_op'.at)

StrokesHavePoints ==
    \A i \in DOMAIN step_objects :
        \A k \in 1 .. Len(step_objects[i]) :
            step_objects[i][k].type = "draw" => Len(step_objects[i][k].points) >= 1

\* the step taken is a <B1-Motion> of a stroke gesture
StrokeDrag ==
    /\ last_op'.name = "drag"
    /\ annotation_tool = "draw"
    /\ step_cards[last_op'.step + 1].last_draw # None

\* the step taken is a <ButtonRelease-1> with the stroke tool
StrokeRelease ==
    /\ last_op'.name = "release"
    /\ annotation_tool = "draw"

\* C13: the release of a stroke gesture commits unconditionally.  A press with
\* the draw tool starts the accumulation with the press point, every drag
\* appends its point, and the release appends exactly one stroke that holds
\* the image-space positions of all accumulated points in their order, also
\* when there is only the press point; the objects before it keep index and
\* value.  Every stored stroke has at least one point in every reachable state.
C13_StrokeCommit ==
    /\ []StrokesHavePoints
    /\ [][/\ PressOf({"draw"}) =>
               step_cards'[last_op'.step + 1].draw_pts = << last_op'.at >>
          /\ StrokeDrag =>
               step_cards'[last_op'.step + 1].draw_pts
                 = Append(step_cards[last_op'.step + 1].draw_pts, last_op'.at)
          /\ StrokeRelease /\ step_cards[last_op'.step + 1].draw_pts # << >> =>
               LET i == last_op'.step
                   card == step_cards[i + 1]
                   pts == card.draw_pts
                   before == ObjectsOf(step_objects, i)
                   after == ObjectsOf(step_objects', i)
               IN  /\ Len(after) = Len(before) + 1
                   /\ SubSeq(after, 1, Len(before)) = before
                   /\ Last(after).type = "draw"
                   /\ Len(Last(after).points) = Len(pts)
                   /\ \A k \in 1 .. Len(pts) :
                        LET q == canvas_to_img(card, pts[k][1], pts[k][2]) IN
                        Last(after).points[k] = << I(q[1]), I(q[2]) >>
                   /\ step_cards'[i + 1].draw_pts = << >>
                   /\ step_crops' = step_crops]_vars

\* a press and release without a drag has left a single-point stroke, and a
\* press, drag and release a stroke of two different points behind it
C13_Witness ==
    /\ last_op.name = "release"
    /\ annotation_tool = "draw"
    /\ Len(ObjectsOf(step_objects, 0)) = 2
    /\ step_objects[0][1].type = "draw" /\ Len(step_objects[0][1].points) = 1
    /\ step_objects[0][2].type = "draw" /\ Len(step_objects[0][2].points) = 2
    /\ step_objects[0][2].points[1] # step_objects[0][2].points[2]

\* ------------------------------------------------------------ properties: the object list
\* the step taken is a run of StepCard.delete_selected that deleted an object
DeleteObjectStep ==
    /\ last_op'.name = "delete_object"
    /\ last_op'.ret

\* C14: deleting the selected object, at index k of the n objects of a step,
\* leaves n-1 objects: those at indices below k keep index and value, those
\* at indices above k move down by one with order and values unchanged; the
\* crop is unchanged and the card has no selected object afterwards.
C14_DeleteShifts ==
    [][DeleteObjectStep =>
         LET i == last_op'.step
             k == Val(step_cards[i + 1].selected_obj)
             before == ObjectsOf(step_objects, i)
             after == ObjectsOf(step_objects', i)
         IN  /\ k \in 0 .. (Len(before) - 1)
             /\ Len(after) = Len(before) - 1
             /\ \A j \in 0 .. (k - 1) : after[j + 1] = before[j + 1]
             /\ \A j \in (k + 1) .. (Len(before) - 1) : after[j] = before[j + 1]
             /\ step_crops' = step_crops
             /\ step_cards'[i + 1].selected_obj = None]_vars

\* the object at index 1 of the three has been deleted: the old objects 0 and
\* 2 are now the objects 0 and 1
C14_Witness ==
    /\ last_op.name = "delete_object" /\ last_op.ret
    /\ ObjectsOf(step_objects, 0) = << SavedHighlight, SavedDot, SavedTiny >>
    /\ step_cards[1].selected_obj = None

\* ------------------------------------------------------------ properties: hit testing
\* the image point q lies inside the bounding box of obj expanded by 6 px on
\* every side: the sorted corners of a rect, the extent of the points of a
\* stroke
InPadded(obj, q) ==
    IF obj.type \in {"highlight", "redact"}
    THEN /\ Min2(obj.x1, obj.x2) - 6 <= q[1] /\ q[1] <= Max2(obj.x1, obj.x2) + 6
         /\ Min2(obj.y1, obj.y2) - 6 <= q[2] /\ q[2] <= Max2(obj.y1, obj.y2) + 6
    ELSE /\ \E k \in DOMAIN obj.points : NumLe(NumSub(obj.points[k][1], I(6)), I(q[1]))
         /\ \E k \in DOMAIN obj.points : NumLe(I(q[1]), NumAdd(obj.points[k][1], I(6)))
         /\ \E k \in DOMAIN obj.points : NumLe(NumSub(obj.points[k][2], I(6)), I(q[2]))
         /\ \E k \in DOMAIN obj.points : NumLe(I(q[2]), NumAdd(obj.points[k][2], I(6)))

\* the greatest index of an object whose expanded box holds the canvas point
\* c mapped to image space; None if there is no such object
Topmost(card, objects, c) ==
    LET q == canvas_to_img(card, c[1], c[2])
        hits == { k \in 0 .. (Len(objects) - 1) : InPadded(objects[k + 1], q) }
    IN  IF hits = {} THEN None
        ELSE Some(CHOOSE k \in hits : \A g \in hits : k >= g)

\* C15: _obj_at returns the topmost hit.  For the object list of every
\* reachable state and every pointer position, _obj_at returns the greatest
\* index whose bounding box, expanded by 6 image px, holds the point mapped
\* to image space, and none iff there is no such object; and a press with the
\* select tool that hits no handle selects exactly that object.
C15_TopmostHit ==
    /\ [](\A i \in StepIdx : HasCanvas(i) =>
            \A p \in TransformPressPts \cup TransformDragPts :
                obj_at(CardOf(i), step_objects, p[1], p[2])
                  = Topmost(CardOf(i), ObjectsOf(step_objects, i), p))
    /\ [][/\ last_op'.name = "press"
          /\ annotation_tool = "none"
          /\ handle_at(step_cards[last_op'.step + 1], step_objects,
                       last_op'.at[1], last_op'.at[2]) = None
          => step_cards'[last_op'.step + 1].selected_obj
               = Topmost(step_cards[last_op'.step + 1],
                         ObjectsOf(step_objects, last_op'.step), last_op'.at)]_vars

\* a press where the highlight and the stroke above it both hold the point
\* has selected the stroke
C15_Witness ==
    /\ last_op.name = "press"
    /\ step_cards[1].selected_obj = Some(1)
    /\ Len(ObjectsOf(step_objects, 0)) = 4
    /\ step_objects[0][1].type = "highlight"
    /\ InPadded(step_objects[0][1], canvas_to_img(step_cards[1], last_op.at[1], last_op.at[2]))
    /\ InPadded(step_objects[0][2], canvas_to_img(step_cards[1], last_op.at[1], last_op.at[2]))

\* the crops under which the same object is looked at: none (the screenshot
\* shown at half size), the crop of the gesture (0,0)-(100,100) (shown at
\* full size) and the crop of the gesture (0,0)-(500,500)
ZoomCrops ==
    { None,
      Some([x1 |-> 0, y1 |-> 0, x2 |-> 200, y2 |-> 200]),
      Some([x1 |-> 0, y1 |-> 0, x2 |-> 1000, y2 |-> 1000]) }

\* the card of step i as reload_image leaves it when the crop of the step is c
CardUnder(i, c) ==
    reload_image(CardOf(i), current_session, log_data,
                 IF c = None THEN DictPop(step_crops, i) ELSE DictSet(step_crops, i, c),
                 files)

\* a press on the card of step i has just been hit-tested against the
\* handles of its selected object
HasSelection(i) ==
    /\ HasCanvas(i)
    /\ last_op.name = "press"
    /\ last_op.step = i
    /\ CardOf(i).selected_obj # None
    /\ Val(CardOf(i).selected_obj) < Len(ObjectsOf(step_objects, i))

\* the display positions, doubled, of the eight handles of the selected
\* object of step i under the crop c
HandlesUnder(i, c) ==
    HandlePos2(img_bbox_to_canvas(CardUnder(i, c),
        obj_bbox_img(ObjectsOf(step_objects, i)[Val(CardOf(i).selected_obj) + 1])))

\* pointer offsets from a handle, in display pixels
HandleOffsets ==
    { << 0, 0 >>, << 9, 9 >>, << -9, 9 >>, << 10, 0 >>, << 20, 0 >> }

\* the pointer at the offset o from the handle at the doubled position pos
PointerAt(pos, o) ==
    << pos[1] \div 2 + o[1], pos[2] \div 2 + o[2] >>

\* the pointer p is within 9 display pixels, on both axes, of the handle at
\* the doubled position pos
NearHandle(pos, p) ==
    /\ Abs(2 * p[1] - pos[1]) <= 18
    /\ Abs(2 * p[2] - pos[2]) <= 18

\* C16, as stated: for the selected object of a pressed card under any two
\* crops, a pointer at the same display offset from the display position of handle h
\* gets the same answer from _handle_at under both, and the answer is h when
\* the offset is within 9 display px.
C16_SameHandleAnyZoom ==
    \A i \in StepIdx : HasSelection(i) =>
        \A c1 \in ZoomCrops, c2 \in ZoomCrops :
            LET card1 == CardUnder(i, c1)
                card2 == CardUnder(i, c2)
                pos1 == HandlesUnder(i, c1)
                pos2 == HandlesUnder(i, c2)
            IN  \A h \in 1 .. 8, o \in HandleOffsets :
                    LET p1 == PointerAt(pos1[h], o)
                        p2 == PointerAt(pos2[h], o)
                        r1 == handle_at(card1, step_objects, p1[1], p1[2])
                        r2 == handle_at(card2, step_objects, p2[1], p2[2])
                    IN  (/\ 2 * p1[1] - pos1[h][1] = 2 * p2[1] - pos2[h][1]
                         /\ 2 * p1[2] - pos1[h][2] = 2 * p2[2] - pos2[h][2])
                        => /\ r1 = r2
                           /\ NearHandle(pos1[h], p1) => r1 = Some(h - 1)

\* C16, amended: for the selected object of a pressed card, the tolerance of
\* _handle_at is 9 display px under every crop and display scale.  A pointer within 9 display px (on both axes) of
\* the display position of some handle gets the lowest-indexed handle that
\* is that near, so it gets h whenever no handle of a lower index is as near;
\* a pointer that is near no handle gets none.
C16_HandleToleranceInDisplay ==
    \A i \in StepIdx : HasSelection(i) =>
        \A c \in ZoomCrops :
            LET card == CardUnder(i, c)
                pos == HandlesUnder(i, c)
            IN  \A h \in 1 .. 8, o \in HandleOffsets :
                    LET p == PointerAt(pos[h], o)
                        r == handle_at(card, step_objects, p[1], p[2])
                    IN  IF \E g \in 1 .. 8 : NearHandle(pos[g], p)
                        THEN /\ r # None
                             /\ NearHandle(pos[Val(r) + 1], p)
                             /\ \A g \in 1 .. Val(r) : ~NearHandle(pos[g], p)
                        ELSE r = None

\* the bottom-right handle of the selected highlight has been pressed, and a
\* pointer 9 px off that handle gets it under two crops that show the
\* handle at different places
C16_Witness ==
    /\ last_op.name = "press"
    /\ HasSelection(0)
    /\ step_cards[1].drag_info # None
    /\ Val(step_cards[1].drag_info).type = "handle"
    /\ Val(step_cards[1].drag_info).handle = 7
    /\ IsRect(step_objects[0][Val(step_cards[1].selected_obj) + 1])
    /\ LET c1 == None
           c2 == Some([x1 |-> 0, y1 |-> 0, x2 |-> 200, y2 |-> 200])
           p1 == PointerAt(HandlesUnder(0, c1)[8], << 9, 9 >>)
           p2 == PointerAt(HandlesUnder(0, c2)[8], << 9, 9 >>)
       IN  /\ p1 # p2
           /\ handle_at(CardUnder(0, c1), step_objects, p1[1], p1[2]) = Some(7)
           /\ handle_at(CardUnder(0, c2), step_objects, p2[1], p2[2]) = Some(7)


\* the numbers a and b have the same value (5 and 5.0 do)
SameNumber(a, b) == a[1] * Den(b) = b[1] * Den(a)

\* the step taken is a <B1-Motion> that reaches the transform part of
\* _on_drag with a drag of the given type ("move" or "handle")
DragOf(type) ==
    /\ last_op'.name = "drag"
    /\ button_down # None
    /\ LET card == CardOf(Val(button_down)) IN
       /\ ~(annotation_tool = "draw" /\ card.last_draw # None)
       /\ ~(card.create_rect # None /\ card.create_start # None)
       /\ card.drag_info # None
       /\ Val(card.drag_info).type = type
       /\ card.selected_obj # None
       /\ Val(card.selected_obj) < Len(ObjectsOf(step_objects, card.index))

\* the dragged object before and after the step, and the drag in progress
DraggedOld == step_objects[Val(button_down)][Val(CardOf(Val(button_down)).selected_obj) + 1]
DraggedNew == step_objects'[Val(button_down)][Val(CardOf(Val(button_down)).selected_obj) + 1]
DragInfo == Val(CardOf(Val(button_down)).drag_info)

\* the drag leaves every other object of the step, and the length of the
\* list, as they were
OthersKept ==
    LET i == Val(button_down)
        k == Val(CardOf(i).selected_obj) + 1
    IN  /\ DOMAIN step_objects' = DOMAIN step_objects
        /\ \A j \in DOMAIN step_objects : j # i => step_objects'[j] = step_objects[j]
        /\ Len(step_objects'[i]) = Len(step_objects[i])
        /\ \A n \in 1 .. Len(step_objects[i]) : n # k => step_objects'[i][n] = step_objects[i][n]

\* C17: after every drag event of a move the object is the snapshot of the
\* press shifted by (current image point - start image point): all four
\* coordinates of a rect, every point of a stroke, by the same (dx, dy); so
\* width, height and point spacing are those of the snapshot, the events do
\* not accumulate, and a drag back to the press position gives the snapshot.
C17_MoveFromSnapshot ==
    [][DragOf("move") =>
        LET card == CardOf(Val(button_down))
            snap == DragInfo.obj_snapshot
            cur == canvas_to_img(card, last_op'.at[1], last_op'.at[2])
            dx == cur[1] - DragInfo.start_img[1]
            dy == cur[2] - DragInfo.start_img[2]
            new == DraggedNew
        IN  /\ OthersKept
            /\ new.type = snap.type
            /\ IF IsRect(snap)
               THEN /\ new.x1 = snap.x1 + dx /\ new.x2 = snap.x2 + dx
                    /\ new.y1 = snap.y1 + dy /\ new.y2 = snap.y2 + dy
                    /\ new.x2 - new.x1 = snap.x2 - snap.x1
                    /\ new.y2 - new.y1 = snap.y2 - snap.y1
               ELSE /\ Len(new.points) = Len(snap.points)
                    /\ \A n \in 1 .. Len(snap.points) :
                         /\ SameNumber(NumSub(new.points[n][1], snap.points[n][1]), I(dx))
                         /\ SameNumber(NumSub(new.points[n][2], snap.points[n][2]), I(dy))
            /\ last_op'.at = DragInfo.start_canvas => new = snap
      ]_vars

\* a stroke is being moved and is away from where it was at the press
C17_Witness ==
    /\ last_op.name = "drag"
    /\ button_down # None
    /\ step_cards[1].drag_info # None
    /\ Val(step_cards[1].drag_info).type = "move"
    /\ step_cards[1].selected_obj # None
    /\ Val(step_cards[1].selected_obj) < Len(step_objects[0])
    /\ LET obj == step_objects[0][Val(step_cards[1].selected_obj) + 1]
           snap == Val(step_cards[1].drag_info).obj_snapshot
       IN  /\ obj.type = "draw"
           /\ Len(obj.points) = 3
           /\ obj.points # snap.points


\* the stored coordinates that handle h (0..7 = TL, TC, TR, ML, MR, BL, BC,
\* BR) moves
MovedBy(h) ==
    CASE h = 0 -> {"x1", "y1"}
      [] h = 1 -> {"y1"}
      [] h = 2 -> {"x2", "y1"}
      [] h = 3 -> {"x1"}
      [] h = 4 -> {"x2"}
      [] h = 5 -> {"x1", "y2"}
      [] h = 6 -> {"y2"}
      [] h = 7 -> {"x2", "y2"}

\* C18: after every drag event of a handle drag of a rect, the stored
\* coordinates that the table gives to the handle are the snapshot's plus
\* the drag delta of their axis, and every other stored coordinate is the
\* snapshot's: 0 moves x1,y1; 1 y1; 2 x2,y1; 3 x1; 4 x2; 5 x1,y2; 6 y2;
\* 7 x2,y2.
C18_HandleMovesItsCoordinates ==
    [][(DragOf("handle") /\ IsRect(DraggedOld)) =>
        LET card == CardOf(Val(button_down))
            snap == DragInfo.obj_snapshot
            cur == canvas_to_img(card, last_op'.at[1], last_op'.at[2])
            start == canvas_to_img(card, DragInfo.start_canvas[1], DragInfo.start_canvas[2])
            dx == cur[1] - start[1]
            dy == cur[2] - start[2]
            moved == MovedBy(DragInfo.handle)
            new == DraggedNew
        IN  /\ OthersKept
            /\ new.type = snap.type
            /\ new.x1 = IF "x1" \in moved THEN snap.x1 + dx ELSE snap.x1
            /\ new.x2 = IF "x2" \in moved THEN snap.x2 + dx ELSE snap.x2
            /\ new.y1 = IF "y1" \in moved THEN snap.y1 + dy ELSE snap.y1
            /\ new.y2 = IF "y2" \in moved THEN snap.y2 + dy ELSE snap.y2
      ]_vars

\* the top-centre handle of a rect has been dragged down and to the side:
\* the top edge has moved, the left and right edges have not
C18_Witness ==
    /\ last_op.name = "drag"
    /\ button_down # None
    /\ step_cards[1].drag_info # None
    /\ Val(step_cards[1].drag_info).type = "handle"
    /\ Val(step_cards[1].drag_info).handle = 1
    /\ last_op.at[1] # Val(step_cards[1].drag_info).start_canvas[1]
    /\ step_cards[1].selected_obj # None
    /\ Val(step_cards[1].selected_obj) < Len(step_objects[0])
    /\ LET obj == step_objects[0][Val(step_cards[1].selected_obj) + 1]
           snap == Val(step_cards[1].drag_info).obj_snapshot
       IN  /\ IsRect(obj)
           /\ obj.y1 # snap.y1
           /\ obj.x1 = snap.x1
           /\ obj.x2 = snap.x2
           /\ obj.y2 = snap.y2


\* the image-space delta of the drag event of the step taken, measured from
\* the press
DragDelta ==
    LET card == CardOf(Val(button_down))
        cur == canvas_to_img(card, last_op'.at[1], last_op'.at[2])
        start == canvas_to_img(card, DragInfo.start_canvas[1], DragInfo.start_canvas[2])
    IN  << cur[1] - start[1], cur[2] - start[2] >>

\* the step taken drags the bottom-right handle of a stroke by (+dx, +dy)
BottomRightGrow ==
    /\ DragOf("handle")
    /\ ~IsRect(DraggedOld)
    /\ DragInfo.handle = 7
    /\ DragDelta[1] > 0
    /\ DragDelta[2] > 0

\* the points of new are the points of snap, in the same order, mapped
\* proportionally from the box old of snap onto the box with the same
\* top-left corner, nw wide and nh high; the points at the top-left corner
\* of old stay where they were
MappedOnto(new, snap, old, nw, nh) ==
    LET ow == NumSub(old[3], old[1])
        oh == NumSub(old[4], old[2])
        box == obj_bbox_img(new)
    IN  /\ Len(new.points) = Len(snap.points)
        /\ \A n \in 1 .. Len(snap.points) :
             /\ SameNumber(NumMul(NumSub(new.points[n][1], old[1]), ow),
                           NumMul(NumSub(snap.points[n][1], old[1]), nw))
             /\ SameNumber(NumMul(NumSub(new.points[n][2], old[2]), oh),
                           NumMul(NumSub(snap.points[n][2], old[2]), nh))
             /\ (SameNumber(snap.points[n][1], old[1]) /\ SameNumber(snap.points[n][2], old[2]))
                  => (/\ SameNumber(new.points[n][1], snap.points[n][1])
                      /\ SameNumber(new.points[n][2], snap.points[n][2]))
        /\ SameNumber(box[1], old[1]) /\ SameNumber(box[2], old[2])
        /\ SameNumber(box[3], NumAdd(old[1], nw))
        /\ SameNumber(box[4], NumAdd(old[2], nh))

\* C19, as stated: a drag of the bottom-right handle of a stroke by
\* (+dx, +dy) maps every point proportionally from the old bounding box onto
\* the box with the old top-left corner and the old bottom-right corner
\* shifted by (dx, dy); the points at the old top-left corner stay, and the
\* order of the points is unchanged.
C19_BottomRightScales ==
    [][BottomRightGrow =>
        LET snap == DragInfo.obj_snapshot
            old == obj_bbox_img(snap)
        IN  /\ OthersKept
            /\ MappedOnto(DraggedNew, snap, old,
                          NumAdd(NumSub(old[3], old[1]), I(DragDelta[1])),
                          NumAdd(NumSub(old[4], old[2]), I(DragDelta[2])))
      ]_vars

\* the width w, or 5 if w is less than 5
AtLeastFive(w) == IF NumLt(w, I(5)) THEN I(5) ELSE w

\* C19, amended: a drag of the bottom-right handle of a stroke by (+dx, +dy)
\* maps every point proportionally from the old bounding box onto the box
\* with the old top-left corner whose width is the old width plus dx and
\* whose height is the old height plus dy, each raised to 5 px if it would
\* be less; the points at the old top-left corner stay, and the order of
\* the points is unchanged.  The new bottom-right corner is the old one
\* shifted by (dx, dy) when the resulting box is at least 5 px wide and high.
C19_BottomRightScalesFloored ==
    [][BottomRightGrow =>
        LET snap == DragInfo.obj_snapshot
            old == obj_bbox_img(snap)
            w == NumAdd(NumSub(old[3], old[1]), I(DragDelta[1]))
            h == NumAdd(NumSub(old[4], old[2]), I(DragDelta[2]))
            box == obj_bbox_img(DraggedNew)
        IN  /\ OthersKept
            /\ NumLt(old[1], old[3]) /\ NumLt(old[2], old[4])
            /\ MappedOnto(DraggedNew, snap, old, AtLeastFive(w), AtLeastFive(h))
            /\ (NumLe(I(5), w) /\ NumLe(I(5), h))
                 => (/\ SameNumber(box[3], NumAdd(old[3], I(DragDelta[1])))
                     /\ SameNumber(box[4], NumAdd(old[4], I(DragDelta[2]))))
      ]_vars

\* the bottom-right handle of the three-point stroke has been dragged down
\* and to the right: its box has grown from the same top-left corner
C19_Witness ==
    /\ last_op.name = "drag"
    /\ button_down # None
    /\ step_cards[1].drag_info # None
    /\ Val(step_cards[1].drag_info).type = "handle"
    /\ Val(step_cards[1].drag_info).handle = 7
    /\ step_cards[1].selected_obj # None
    /\ Val(step_cards[1].selected_obj) < Len(step_objects[0])
    /\ LET obj == step_objects[0][Val(step_cards[1].selected_obj) + 1]
           snap == Val(step_cards[1].drag_info).obj_snapshot
       IN  /\ obj.type = "draw"
           /\ Len(obj.points) = 3
           /\ SameNumber(obj_bbox_img(obj)[1], obj_bbox_img(snap)[1])
           /\ SameNumber(obj_bbox_img(obj)[2], obj_bbox_img(snap)[2])
           /\ NumLt(obj_bbox_img(snap)[3], obj_bbox_img(obj)[3])
           /\ NumLt(obj_bbox_img(snap)[4], obj_bbox_img(obj)[4])


\* C20: stroke resize never produces a degenerate box: after every drag
\* event of a handle drag of a stroke (any handle, any delta, any stroke) the
\* bounding box of the stroke is at least 5 px wide and at least 5 px high.
C20_ResizeNeverDegenerate ==
    [][(DragOf("handle") /\ ~IsRect(DraggedOld)) =>
        LET box == obj_bbox_img(DraggedNew)
        IN  /\ NumLe(I(5), NumSub(box[3], box[1]))
            /\ NumLe(I(5), NumSub(box[4], box[2]))
      ]_vars

\* ------------------------------------------------------------ properties: numbers
\* the Python number a has an integral value
IsWhole(a) == a[1] % Den(a) = 0

\* C21: coordinates are integers: in every reachable state every stored
\* rect coordinate, every stored stroke point coordinate and every stored
\* crop coordinate has an integral value.
C21_IntegerCoordinates ==
    /\ \A i \in DOMAIN step_objects : \A k \in 1 .. Len(step_objects[i]) :
         LET obj == step_objects[i][k] IN
         IF IsRect(obj)
         THEN {obj.x1, obj.y1, obj.x2, obj.y2} \subseteq Int
         ELSE \A n \in 1 .. Len(obj.points) :
                IsWhole(obj.points[n][1]) /\ IsWhole(obj.points[n][2])
    /\ \A i \in DOMAIN step_crops :
         step_crops[i] # None =>
           {Val(step_crops[i]).x1, Val(step_crops[i]).y1,
            Val(step_crops[i]).x2, Val(step_crops[i]).y2} \subseteq Int


\* ------------------------------------------------------------ properties: geometry
\* the box _obj_bbox_img gives for a rect with the corners (x1, y1), (x2, y2)
NormalBox(x1, y1, x2, y2) ==
    LET b == obj_bbox_img([type |-> "highlight", x1 |-> x1, y1 |-> y1,
                           x2 |-> x2, y2 |-> y2])
    IN  << b[1][1], b[2][1], b[3][1], b[4][1] >>

\* the normalized box of the corners is sorted, has the same corner values
\* and is its own normalized box
NormalizesWell(x1, y1, x2, y2) ==
    LET n == NormalBox(x1, y1, x2, y2) IN
    /\ n[1] <= n[3] /\ n[2] <= n[4]
    /\ {n[1], n[3]} = {x1, x2} /\ {n[2], n[4]} = {y1, y2}
    /\ NormalBox(n[1], n[2], n[3], n[4]) = n

\* corner values for the combinations that no gesture of the model stores
CornerVals == {-4, 0, 7}

\* C22: normalizing a rect (sorting x1/x2 and y1/y2, as _obj_bbox_img does)
\* yields x1 <= x2 and y1 <= y2 and is idempotent, for every stored rect of
\* every reachable state and for every combination of the corner values
\* (equal, sorted, unsorted on either axis).
C22_NormalizeIdempotent ==
    /\ \A i \in DOMAIN step_objects : \A k \in 1 .. Len(step_objects[i]) :
         LET obj == step_objects[i][k] IN
         IsRect(obj) => NormalizesWell(obj.x1, obj.y1, obj.x2, obj.y2)
    /\ \A x1 \in CornerVals, y1 \in CornerVals, x2 \in CornerVals, y2 \in CornerVals :
         NormalizesWell(x1, y1, x2, y2)

\* a stored rect has both pairs of corners out of order (its top-left
\* handle has been dragged past the bottom-right corner)
C22_Witness ==
    /\ last_op.name = "drag"
    /\ \E k \in 1 .. Len(step_objects[0]) :
         /\ IsRect(step_objects[0][k])
         /\ step_objects[0][k].x1 > step_objects[0][k].x2
         /\ step_objects[0][k].y1 > step_objects[0][k].y2
         /\ NormalBox(step_objects[0][k].x1, step_objects[0][k].y1,
                      step_objects[0][k].x2, step_objects[0][k].y2)
              = << step_objects[0][k].x2, step_objects[0][k].y2,
                   step_objects[0][k].x1, step_objects[0][k].y1 >>


\* _img_to_canvas(_canvas_to_img(p)) on the card
RoundTrip(card, p) ==
    LET q == canvas_to_img(card, p[1], p[2])
    IN  img_to_canvas(card, I(q[1]), I(q[2]))

\* p comes back within 1 px on each axis, through an image point that is a
\* pair of integers >= 0
ComesBack(card, p) ==
    /\ canvas_to_img(card, p[1], p[2]) \in Nat \X Nat
    /\ Abs(RoundTrip(card, p)[1] - p[1]) <= 1
    /\ Abs(RoundTrip(card, p)[2] - p[2]) <= 1

\* reload_image has just set the crop region and the display size of the
\* cards: after a load, an undo, a crop reset or a release that changed the step
FreshView ==
    \/ last_op.name \in {"load", "undo", "reset_crop"}
    \/ last_op.name = "release" /\ last_op.changed

\* pointer positions outside the canvas, as a drag or a release can have
OutsidePts == { << -5, -1 >>, << -1, 900 >>, << 2000, -3 >> }

C24_SameWidthRatio ==
    \A i \in StepIdx :
        (HasCanvas(i) /\ annotation_tool = "draw" /\ CardOf(i).last_draw # None) =>
            LET card == CardOf(i)
                dw == card.disp_size[1]
                cw == card.crop_region[3] - card.crop_region[1]
            IN  /\ preview_width(card, draw_width) = render_width(card, draw_width)
                /\ render_width(card, draw_width) = Max2(1, (draw_width * dw) \div cw)


\* ------------------------------------------------------------ properties: flatten
\* _flatten_to_pil(i) in the present state
FlatOf(i) ==
    flatten_to_pil(log_data, current_session, files, step_objects, step_crops, i)

\* step i has a base image: it is not text-only and its screenshot exists
Renderable(i) ==
    /\ i \in StepIdx
    /\ current_session # None
    /\ log_data[i + 1].screenshot # None
    /\ Has(files, Val(log_data[i + 1].screenshot))

\* _flatten_to_pil on a recording that holds nothing but the base image, the
\* crop and the objects of step i
AloneFlat(i) ==
    LET shot == Val(log_data[i + 1].screenshot)
        crop == CropOf(step_crops, i)
    IN  flatten_to_pil(<< log_data[i + 1] >>, current_session, (shot :> files[shot]),
                       (0 :> ObjectsOf(step_objects, i)),
                       IF crop = None THEN EmptyDict ELSE (0 :> crop), 0)

\* the step taken is a thumbnail load or an export
FlattenStep == last_op'.name \in {"load_thumb", "export_html", "export_pdf"}

\* C25: flatten is pure and deterministic.  In every state the output for a
\* step with a base image is the output computed from its {base image, crop,
\* objects} alone, whatever the tool, the selection, the undo stacks and the
\* other steps are, with one draw operation per object, oldest first; and a
\* step that calls flatten leaves objects, crops, undo stacks, cards and
\* selection of every step unchanged and gets that output.
C25_FlattenPure ==
    /\ [](\A i \in StepIdx : Renderable(i) =>
            /\ FlatOf(i) = AloneFlat(i)
            /\ FlatOf(i).kind = "image"
            /\ Len(FlatOf(i).ops) = Len(ObjectsOf(step_objects, i))
            /\ \A k \in 1 .. Len(FlatOf(i).ops) :
                 FlatOf(i).ops[k] = flat_op(ObjectsOf(step_objects, i)[k],
                                            FlatOf(i).region[1], FlatOf(i).region[2]))
    /\ [][FlattenStep =>
            /\ UNCHANGED << step_objects, step_crops, undo_stacks, step_cards,
                            selected, active_card_ref, log_data, files, steps_json >>
            /\ (last_op'.name = "load_thumb" /\ current_session # None)
                 => last_op'.flat = FlatOf(last_op'.step)
            /\ last_op'.name # "load_thumb"
                 => \A k \in 1 .. Len(last_op'.flats) : last_op'.flats[k] = FlatOf(k - 1)
       ]_vars

\* the thumbnail of a cropped step with two objects has been made while the
\* highlight tool is active and the undo stack of the step is not empty
C25_Witness ==
    /\ last_op.name = "load_thumb"
    /\ last_op.flat.kind = "image"
    /\ Len(last_op.flat.ops) = 2
    /\ last_op.flat.ops[1] # last_op.flat.ops[2]
    /\ last_op.flat.region = << 0, 0, 100, 100 >>
    /\ annotation_tool = "highlight"
    /\ StackOf(undo_stacks, last_op.step) # << >>
    /\ Len(log_data) = 2

\* the region r lies inside an image of the given size and is at least 1x1
RegionInside(r, size) ==
    /\ 0 <= r[1] /\ r[1] < r[3] /\ r[3] <= size[1]
    /\ 0 <= r[2] /\ r[2] < r[4] /\ r[4] <= size[2]

\* the size of the base image of step i
BaseSize(i) == files[Val(log_data[i + 1].screenshot)]

\* C26: the crop region that flatten extracts, and the one the card shows, is
\* clamped to the image and at least 1x1: 0 <= cx1 < cx2 <= w and
\* 0 <= cy1 < cy2 <= h, for every image size and every stored crop.
C26_CropRegionClamped ==
    \A i \in StepIdx : Renderable(i) =>
        /\ RegionInside(FlatOf(i).region, BaseSize(i))
        /\ RegionInside(step_cards[i + 1].crop_region, BaseSize(i))

\* step i has no base image: it is text-only, or its screenshot file is missing
MissingBase(i) ==
    \/ log_data[i + 1].screenshot = None
    \/ ~Has(files, Val(log_data[i + 1].screenshot))

\* C27: MissingBaseImage.  When a thumbnail is built or a report is exported,
\* flatten returns null for every step that is text-only or whose screenshot
\* file is missing, nothing raises and no exception leaves the caller, and no
\* state changes.
C27_MissingImageIsNull ==
    [][FlattenStep =>
         /\ UNCHANGED << step_objects, step_crops, undo_stacks, step_cards,
                         selected, active_card_ref, log_data, files, steps_json >>
         /\ last_op'.ret
         /\ last_op'.name = "load_thumb" =>
              (MissingBase(last_op'.step) => last_op'.flat.kind = "none")
         /\ last_op'.name # "load_thumb" =>
              /\ ~last_op'.propagates
              /\ Len(last_op'.flats) = Len(log_data)
              /\ \A i \in StepIdx : MissingBase(i) => last_op'.flats[i + 1].kind = "none"
    ]_vars

\* ------------------------------------------------------------ properties: stale indexes
\* the card of step i with a selection that points behind the last object
StaleSelection(i) ==
    [CardOf(i) EXCEPT !.selected_obj = Some(Len(ObjectsOf(step_objects, i)))]

\* push_undo with the index of no step leaves the undo stacks as they are
StalePushUndoKeeps ==
    push_undo(undo_stacks, step_objects, step_crops, NSteps) = undo_stacks

\* pop_undo with the index of no step answers False and restores nothing
StalePopUndoKeeps ==
    LET r == pop_undo(undo_stacks, step_objects, step_crops, NSteps) IN
    /\ ~r.ok
    /\ r.objects = step_objects /\ r.crops = step_crops /\ r.stacks = undo_stacks

\* flatten with the index of no step answers null
StaleFlattenIsNull == FlatOf(NSteps).kind = "none"

\* recolour, delete and the handle hit-test of a card whose selection is stale
\* answer False / None and leave the objects and the undo stacks as they are
StaleObjectKeeps ==
    \A i \in StepIdx : HasCanvas(i) =>
        LET card == StaleSelection(i)
            col == apply_color_to_selection(card, step_objects, step_crops,
                                            undo_stacks, OtherColor)
            del == delete_selected(card, step_objects, step_crops, undo_stacks)
        IN  /\ ~col.ok /\ col.objs = step_objects /\ col.stacks = undo_stacks
            /\ ~del.ok /\ del.objs = step_objects /\ del.stacks = undo_stacks
            /\ del.card = card
            /\ \A p \in StepPts : handle_at(card, step_objects, p[1], p[2]) = None

\* C28: OutOfRangeIndex.  push_undo, pop_undo and flatten called with the
\* index of no step, and recolour, delete and the handle hit-test called with
\* a selection behind the last object, are no-ops: objects, crops and undo
\* stacks stay as they are and the answer is a failure signal, nothing raises
\* and nothing is created.
C28_StaleIndexNoOp ==
    /\ StalePushUndoKeeps
    /\ StalePopUndoKeeps
    /\ StaleFlattenIsNull
    /\ StaleObjectKeeps

\* ------------------------------------------------------------ properties: persistence
\* what _do_load_recording makes of the manifest that save_steps writes now
SavedAndLoaded ==
    load_steps(Val(save_steps(current_session, log_data, step_objects, step_crops,
                              steps_json)))

\* the objects and the crop that record rec of a manifest stands for
RecordObjects(rec) == IF "objects" \in DOMAIN rec THEN rec.objects ELSE << >>
RecordCrop(rec) ==
    IF "crop" \in DOMAIN rec /\ rec.crop # JNull THEN Some(rec.crop) ELSE None

\* C29: persistence round trip.  Saving the session and loading it back gives
\* every step the same ordered object list and the same crop, an absent crop
\* staying absent; a recording that has just been loaded has, for every step,
\* the objects and the crop of its record, none for a record without the
\* field, and no undo stack.
C29_PersistenceRoundTrip ==
    /\ Len(SavedAndLoaded.log) = NSteps
    /\ \A i \in StepIdx :
         /\ ObjectsOf(SavedAndLoaded.objs, i) = ObjectsOf(step_objects, i)
         /\ CropOf(SavedAndLoaded.crops, i) = CropOf(step_crops, i)
         /\ SavedAndLoaded.log[i + 1] = log_data[i + 1]
    /\ last_op.name = "load" =>
         /\ undo_stacks = EmptyDict
         /\ NSteps = Len(Val(steps_json))
         /\ \A i \in StepIdx :
              /\ ObjectsOf(step_objects, i) = RecordObjects(Val(steps_json)[i + 1])
              /\ CropOf(step_crops, i) = RecordCrop(Val(steps_json)[i + 1])

\* a recording has been loaded back while a step with a crop and two objects
\* had a snapshot on its undo stack, next to a step without a crop
C29_Witness ==
    /\ last_op.name = "load"
    /\ last_op.had_undo
    /\ CropOf(step_crops, 0) # None
    /\ Len(ObjectsOf(step_objects, 0)) >= 2
    /\ CropOf(step_crops, 1) = None

\* a manifest whose records lack the objects and crop fields has been loaded
C29_WitnessLegacy ==
    /\ last_op.name = "load"
    /\ \E i \in StepIdx : DOMAIN Val(steps_json)[i + 1] = { "step", "screenshot" }
    /\ \A i \in StepIdx : DOMAIN Val(steps_json)[i + 1] = { "step", "screenshot" } =>
         ObjectsOf(step_objects, i) = << >> /\ CropOf(step_crops, i) = None

\* ------------------------------------------------------------ properties: gestures
\* no gesture is in progress on the card
CardIdle(card) ==
    /\ card.drag_info = None
    /\ card.create_start = None
    /\ card.create_rect = None
    /\ card.draw_pts = << >>

\* C30: the gesture state machine returns to Idle on release.  After every
\* pointer release on a card, whatever tool was active at the press and
\* whatever tool hotkey or undo came between press and release, the card has
\* no drag info, no create start, no rubber-band rectangle and no accumulated
\* stroke points.
C30_IdleAfterRelease ==
    [][last_op'.name = "release" =>
         (last_op'.step \in StepIdxAfter => CardIdle(step_cards'[last_op'.step + 1]))]_vars

\* ------------------------------------------------------------ properties: resize of a rect
\* C31: handle resize reads the corners of a rect sorted.  On every drag event
\* of a handle drag of a rect, stored sorted or not, the edge of the bounding
\* box at which the handle is shown follows the pointer and the opposite edge
\* of the bounding box stays where it was at the press: the two x extents of
\* the box are the snapshot's, with the delta added to the left one for a
\* handle on the left edge and to the right one for a handle on the right
\* edge, and so for y.
C31_HandleMovesItsEdge ==
    [][(DragOf("handle") /\ IsRect(DraggedOld)) =>
        LET card == CardOf(Val(button_down))
            snap == DragInfo.obj_snapshot
            cur == canvas_to_img(card, last_op'.at[1], last_op'.at[2])
            start == canvas_to_img(card, DragInfo.start_canvas[1], DragInfo.start_canvas[2])
            dx == cur[1] - start[1]
            dy == cur[2] - start[2]
            f == HANDLE_FX[DragInfo.handle + 1]
            new == DraggedNew
        IN  /\ { new.x1, new.x2 } = { Min2(snap.x1, snap.x2) + dx * f[1],
                                      Max2(snap.x1, snap.x2) + dx * f[3] }
            /\ { new.y1, new.y2 } = { Min2(snap.y1, snap.y2) + dy * f[2],
                                      Max2(snap.y1, snap.y2) + dy * f[4] }
      ]_vars

\* ------------------------------------------------------------ properties: the Delete key
\* the step taken is a Delete or BackSpace key press
RootKeyStep == last_op'.name \in { "delete_object", "delete_steps", "delete_steps_asked" }

\* the active card has a selected object (selected by a click on it with the
\* pointer tool) and no button is held
ObjectSelected ==
    /\ button_down = None
    /\ active_card_ref # None
    /\ HasCanvas(Val(active_card_ref))
    /\ CardOf(Val(active_card_ref)).selected_obj # None
    /\ Val(CardOf(Val(active_card_ref)).selected_obj)
         < Len(ObjectsOf(step_objects, Val(active_card_ref)))

\* C32: with an annotation object selected by a click on the canvas, Delete or
\* BackSpace deletes that object, after pushing one undo snapshot, and does
\* not invoke the deletion of the step.
C32_DeleteKeyDeletesObject ==
    [][(RootKeyStep /\ ObjectSelected) =>
        LET i == Val(active_card_ref)
            k == Val(CardOf(i).selected_obj) + 1
            objects == ObjectsOf(step_objects, i)
        IN  /\ last_op'.name = "delete_object"
            /\ log_data' = log_data
            /\ ObjectsOf(step_objects', i) =
                 SubSeq(objects, 1, k - 1) \o SubSeq(objects, k + 1, Len(objects))
            /\ Len(StackOf(undo_stacks', i)) = Len(StackOf(undo_stacks, i)) + 1
            /\ Last(StackOf(undo_stacks', i)).at_push = LiveState(step_objects, step_crops, i)
      ]_vars

\* ------------------------------------------------------------ properties: pause
\* C33: while recording is paused, events are suppressed.  In every
\* interleaving of the listeners that enqueue events and the timer that takes
\* one event per tick, a capture appends a step (and takes its screenshot)
\* only when recording is true and paused is false.
C33_NoStepWhilePaused ==
    [][(last_op'.name = "capture"
          /\ (Len(log_data') > Len(log_data) \/ files' # files))
        => (recording /\ ~paused)]_vars

\* ------------------------------------------------------------ properties: selection
\* C34: selection validity.  In every reachable state each card has at most
\* one selected object (none, or one index), and the index, when not none, is
\* a valid index into the current object list of the card's step:
\* 0 <= selected < number of objects.
C34_SelectionValid ==
    \A n \in 1 .. Len(step_cards) :
        LET card == step_cards[n] IN
        /\ card.selected_obj = None \/ Len(card.selected_obj) = 1
        /\ card.selected_obj # None =>
             /\ 0 <= Val(card.selected_obj)
             /\ Val(card.selected_obj) < Len(ObjectsOf(step_objects, card.index))

\* an object is selected by a click after it was created in the same run: the
\* card's index points at it and the undo stack of the step holds the
\* snapshots of the create gesture and of the click
C34_Witness ==
    /\ Len(step_cards) >= 1
    /\ step_cards[1].selected_obj = Some(0)
    /\ Len(ObjectsOf(step_objects, 0)) = 1
    /\ Len(StackOf(undo_stacks, 0)) = 2
    /\ last_op.name = "release"

\* ------------------------------------------------------------ properties: gestures without effect
\* C35: a gesture that changes nothing leaves the undo stack unchanged.  After
\* every release the newest snapshot of the step's undo stack, if there is
\* one, differs from the live {objects, crop} of the step (no snapshot was
\* kept for a discarded rectangle, a discarded crop or a click without
\* movement), and every successful undo changes the step's {objects, crop}.
C35_NoSnapshotWithoutChange ==
    [][/\ (last_op'.name = "release" /\ last_op'.step \in StepIdxAfter) =>
            LET i == last_op'.step
                stack == StackOf(undo_stacks', i)
            IN  stack # << >> =>
                  Last(stack).at_push # LiveState(step_objects', step_crops', i)
       /\ (last_op'.name = "undo" /\ last_op'.ret) => last_op'.changed
      ]_vars

\* ------------------------------------------------------------ properties: new steps
\* no step has a snapshot on its undo stack after the step taken
StacksEmptyAfter == \A i \in DOMAIN undo_stacks' : undo_stacks'[i] = << >>

\* C36: a newly created step has an empty undo stack.  A capture leaves the
\* step it appends with no snapshot, no objects and no crop; an insert, a
\* paste, a drop and a load leave every step with no snapshot; and after
\* start_recording no snapshot of the previous session is left to restore.
C36_NewStepNoUndo ==
    [][/\ (last_op'.name = "capture" /\ last_op'.ret) =>
            /\ StackOf(undo_stacks', last_op'.step) = << >>
            /\ ObjectsOf(step_objects', last_op'.step) = << >>
            /\ CropOf(step_crops', last_op'.step) = None
       /\ last_op'.name \in { "insert", "load", "start_recording" } => StacksEmptyAfter
      ]_vars

\* ------------------------------------------------------------ properties: screenshot files
\* C37: screenshot files are never shared or overwritten.  In every reachable
\* state no two steps reference the same screenshot file, and the name
\* step_<step_counter>.png that the next capture will write is not the file
\* of any step.
C37_FilesNotShared ==
    /\ \A j, k \in 1 .. Len(log_data) :
         (j # k /\ log_data[j].screenshot # None)
           => log_data[j].screenshot # log_data[k].screenshot
    /\ \A k \in 1 .. Len(log_data) :
         log_data[k].screenshot # Some(<< "step", step_counter >>)

\* C38: step numbers are dense and positional.  In every reachable state the
\* step at list index i carries step number i + 1.
C38_StepNumbersDense ==
    \A k \in 1 .. Len(log_data) : log_data[k].step = k

\* C39: a step is recorded as having a crop only when it has a crop
\* rectangle.  In every reachable state every key of the crop map has a
\* rectangle as its value, and Reset Crop on a step without a crop rectangle
\* pushes no undo snapshot and reports that there is no crop.
C39_CropKeysHaveRects ==
    /\ [](\A i \in DOMAIN step_crops : step_crops[i] # None)
    /\ [][(/\ last_op'.name = "reset_crop"
           /\ CropOf(step_crops, last_op'.step) = None)
          => (/\ ~last_op'.ret
              /\ undo_stacks' = undo_stacks)]_vars

\* ------------------------------------------------------------ properties: per-step isolation
\* the handlers that act on one step's annotations
GestureNames ==
    { "press", "drag", "release", "undo", "recolor", "delete_object", "reset_crop" }

\* every key of the three maps, before and after the step
AllKeys ==
    DOMAIN step_objects \cup DOMAIN step_crops \cup DOMAIN undo_stacks
      \cup DOMAIN step_objects' \cup DOMAIN step_crops' \cup DOMAIN undo_stacks'

\* step k has the same entry in the three maps before and after
StepKept(k) ==
    /\ (k \in DOMAIN step_objects') = (k \in DOMAIN step_objects)
    /\ (k \in DOMAIN step_crops') = (k \in DOMAIN step_crops)
    /\ (k \in DOMAIN undo_stacks') = (k \in DOMAIN undo_stacks)
    /\ ObjectsOf(step_objects', k) = ObjectsOf(step_objects, k)
    /\ CropOf(step_crops', k) = CropOf(step_crops, k)
    /\ StackOf(undo_stacks', k) = StackOf(undo_stacks, k)

\* C40: per-step isolation.  push_undo(s), pop_undo(s) and every annotation
\* gesture on step s (create, move, resize, recolour, delete object, crop,
\* crop reset, undo) leave the objects, the crop and the undo stack of every
\* other step unchanged.
C40_PerStepIsolation ==
    [][last_op'.name \in GestureNames
         => \A k \in AllKeys : k # last_op'.step => StepKept(k)]_vars

\* a gesture on the second step has changed it, and the first step has
\* objects and a crop of its own
C40_Witness ==
    /\ last_op.name \in { "release", "undo", "reset_crop", "delete_object" }
    /\ last_op.step = 1
    /\ StackOf(undo_stacks, 1) # << >>
    /\ ObjectsOf(step_objects, 1) # << SavedRedact >>
    /\ ObjectsOf(step_objects, 0) # << >>
    /\ CropOf(step_crops, 0) # None

====
